---------------------------- MODULE Spec2Model ----------------------------
(***************************************************************************)
(* Model of the request/response correlation store of rmw_zenoh_cpp.       *)
(*                                                                         *)
(* The repository holds two implementations of the store:                  *)
(*   - class ClientData            (detail/rmw_client_data.cpp)            *)
(*   - struct rmw_client_data_t    (detail/rmw_data_types.cpp)             *)
(* Both own the same fields (reply_queue_, wait_set_data_, is_shutdown_,   *)
(* num_in_flight_, sequence_number_).  The variable impl says which of the *)
(* two a behaviour runs; every action is the translation of one method (or *)
(* one lock-delimited step of a callback) of that implementation.          *)
(***************************************************************************)
EXTENDS Integers, Sequences, FiniteSets, TLC

(***************************************************************************)
(* Bounds of the model.                                                    *)
(***************************************************************************)
MaxQueries == 2
MaxReplies == 2
MaxDepth == 2
MaxEvents == 3
MaxIds == 4

(***************************************************************************)
(* Program constants.                                                      *)
(***************************************************************************)
\* attachment_helpers.cpp:93  z_slice_len(slice) != 16
GID_LEN == 16
\* rmw_client_data.cpp:221  sequence_number_(1)
FIRST_SEQUENCE_NUMBER == 1

Impls == {"ClientData", "rmw_client_data_t"}
Histories == {"KEEP_LAST", "KEEP_ALL"}

Queries == 1..MaxQueries
Replies == 1..MaxReplies

(***************************************************************************)
(* Attachment codec (attachment_helpers.cpp).  The serialized attachment   *)
(* is the sequence of items the ze_serializer wrote; an item is a string,  *)
(* an int64 or a byte slice (a slice is kept as its length and an          *)
(* identifier of its content).                                             *)
(***************************************************************************)
StrItem(s) == [type |-> "str", val |-> s]
IntItem(n) == [type |-> "int64", val |-> n]
SliceItem(len, id) == [type |-> "slice", val |-> [len |-> len, id |-> id]]

\* Variant of serialize_to_zbytes that writes the two numbers under each
\* other's tag.
serialize_numbers_swapped(sequence_number, source_timestamp, gid) ==
  << StrItem("sequence_number"), IntItem(source_timestamp),
     StrItem("source_timestamp"), IntItem(sequence_number),
     StrItem("source_gid"), SliceItem(GID_LEN, gid) >>

\* AttachmentData::serialize_to_zbytes
serialize_to_zbytes(sequence_number, source_timestamp, gid) ==
  << StrItem("sequence_number"), IntItem(sequence_number),
     StrItem("source_timestamp"), IntItem(source_timestamp),
     StrItem("source_gid"), SliceItem(GID_LEN, gid) >>

\* ze_deserializer_deserialize_string at position i: the key read, or the
\* empty string when the item there is no string (the owned string is then
\* left null, and the code compares it without looking at the result).
deserialize_string(bytes, i) ==
  IF i <= Len(bytes) /\ bytes[i].type = "str" THEN bytes[i].val ELSE ""

\* ze_deserializer_deserialize_int64 / _slice at position i succeed only on
\* an item of that type.
deserialize_ok(bytes, i, type) == i <= Len(bytes) /\ bytes[i].type = type

DecodeError(msg) == [ok |-> FALSE, error |-> msg]

\* Variant of the decoding constructor without the length test of line 93.
AttachmentData_without_length_test(bytes) ==
  IF deserialize_string(bytes, 1) # "sequence_number"
    THEN DecodeError("sequence_number is not found in the attachment.")
  ELSE IF ~deserialize_ok(bytes, 2, "int64")
    THEN DecodeError("Failed to deserialize the sequence_number.")
  ELSE IF deserialize_string(bytes, 3) # "source_timestamp"
    THEN DecodeError("source_timestamp is not found in the attachment")
  ELSE IF ~deserialize_ok(bytes, 4, "int64")
    THEN DecodeError("Failed to deserialize the source_timestamp.")
  ELSE IF deserialize_string(bytes, 5) # "source_gid"
    THEN DecodeError("Invalid attachment: the key source_gid is not found")
  ELSE IF ~deserialize_ok(bytes, 6, "slice")
    THEN DecodeError("Failed to deserialize the source_gid.")
  ELSE [ok |-> TRUE,
        sequence_number |-> bytes[2].val,
        source_timestamp |-> bytes[4].val,
        source_gid |-> bytes[6].val.id]

\* AttachmentData::AttachmentData(const z_loaned_bytes_t *): the decoded
\* attachment, or the std::runtime_error it throws.
AttachmentData(bytes) ==
  IF deserialize_string(bytes, 1) # "sequence_number"
    THEN DecodeError("sequence_number is not found in the attachment.")
  ELSE IF ~deserialize_ok(bytes, 2, "int64")
    THEN DecodeError("Failed to deserialize the sequence_number.")
  ELSE IF deserialize_string(bytes, 3) # "source_timestamp"
    THEN DecodeError("source_timestamp is not found in the attachment")
  ELSE IF ~deserialize_ok(bytes, 4, "int64")
    THEN DecodeError("Failed to deserialize the source_timestamp.")
  ELSE IF deserialize_string(bytes, 5) # "source_gid"
    THEN DecodeError("Invalid attachment: the key source_gid is not found")
  ELSE IF ~deserialize_ok(bytes, 6, "slice")
    THEN DecodeError("Failed to deserialize the source_gid.")
  ELSE IF bytes[6].val.len # GID_LEN
    THEN DecodeError("The length of source_gid mismatched.")
  ELSE [ok |-> TRUE,
        sequence_number |-> bytes[2].val,
        source_timestamp |-> bytes[4].val,
        source_gid |-> bytes[6].val.id]

(***************************************************************************)
(* Replies the transport delivers.  A reply answers query q; the server    *)
(* echoes the request's sequence number and stamps its own source time.    *)
(* Shapes of a reply:                                                      *)
(*   "valid_t2", "valid_t1"  z_reply_is_ok, well-formed attachment with    *)
(*                           source timestamp 2 resp. 1                     *)
(*   "malformed"             z_reply_is_ok, attachment that does not decode *)
(*                           (Malformation: which way, spread over the      *)
(*                           replies so that every way occurs)              *)
(*   "err"                   z_reply_is_ok returns false                    *)
(***************************************************************************)
Shapes == {"valid_t2", "valid_t1", "malformed", "err"}
Malformations == << "no_gid_tag", "gid_len_15", "seq_not_int" >>
Malformation(r, q) == Malformations[((r + q) % Len(Malformations)) + 1]

SERVER_GID == "server"

MalformedAttachment(kind, seq) ==
  CASE kind = "no_gid_tag" ->
         << StrItem("sequence_number"), IntItem(seq),
            StrItem("source_timestamp"), IntItem(1) >>
    [] kind = "gid_len_15" ->
         << StrItem("sequence_number"), IntItem(seq),
            StrItem("source_timestamp"), IntItem(1),
            StrItem("source_gid"), SliceItem(GID_LEN - 1, SERVER_GID) >>
    [] kind = "seq_not_int" ->
         << StrItem("sequence_number"), StrItem("x"),
            StrItem("source_timestamp"), IntItem(1),
            StrItem("source_gid"), SliceItem(GID_LEN, SERVER_GID) >>

VARIABLES
  impl,              \* which implementation of the store this behaviour runs
  history,           \* adapted_qos_profile.history
  depth,             \* adapted_qos_profile.depth
  alive,             \* the store object exists (not destructed / erased)
  is_shutdown_,
  num_in_flight_,
  sequence_number_,
  reply_queue_,      \* std::deque<std::unique_ptr<ZenohReply>>: reply ids
  reply_queue_mutex_, \* rmw_client_data_t: the handler holding it, or 0
  wait_set_data_,    \* TRUE when a wait-set object is attached
  triggered,         \* wait_set_data->triggered of the caller's wait set
  query,             \* per query: "idle", "issued" (z_get done), "failed"
                     \* (z_get failed), "dropped" (drop callback has run)
  qseq,              \* per query: the sequence number sent with it
  rep,               \* per reply: [pc, q, shape] of its handler invocation
  destroy_called,    \* the application asked to destroy the client
  crashed,           \* the process aborted (undefined behaviour)
  uaf,               \* a callback ran on the store after it was freed
  issued,            \* history: sequence numbers handed to callers
  added,             \* history: the replies add_new_reply enqueued, in order
  popped,            \* history: replies removed from the front by a take
  delivered,         \* history: replies a take reported as taken
  interleaved,       \* history: a reply was enqueued after a take removed one
  token_,            \* ClientData: state of the store's liveliness token
  declared,          \* presence tokens currently declared on the network
  Data_pc,           \* progress of rmw_context_impl_s::Data::Data
  channel,           \* replies of zc_liveliness_get not yet received
  is_initialized_,   \* Data::is_initialized_
  graph_subscriber_, \* Data: the liveliness subscriber is declared
  Data_is_shutdown_, \* Data::is_shutdown_
  graph_cache_,      \* GraphCache: [entities, index]
  samples,           \* liveliness samples delivered and not yet handled
  Data_mutex_,       \* Data::mutex_: "" when free, else the holder
  app_pc,            \* the application thread inside a discovery accessor
  graph_guard_condition_, \* times rmw_trigger_guard_condition was called
  log,               \* history: tokens handed to parse_put / parse_del
  partial_seen,      \* history: an accessor read a half-applied put/delete
  n_events,          \* declare/undeclare events the network has produced
  destroyed,         \* times the store was destructed / removed
  att_in,            \* codec: the triple last serialized, or NoAttachment
  att_bytes,         \* codec: the attachment bytes at hand
  att_out,           \* codec: what the decoding constructor made of them
  holder,            \* locking: per mutex of the store, the thread holding it
  at,                \* locking: per thread, the store method it is inside
  next_entity_id_,   \* Data::next_entity_id_
  id_at,             \* per caller of get_next_entity_id: where it is
  entity_ids,        \* history: the ids get_next_entity_id returned, and to whom
  Data_destructor    \* progress of ~Data: "none", "freed", "done"

config == << impl, history, depth >>
store == << alive, is_shutdown_, num_in_flight_, sequence_number_,
            reply_queue_, reply_queue_mutex_, wait_set_data_, triggered >>
graph == << declared, Data_pc, channel, is_initialized_, graph_subscriber_,
            Data_is_shutdown_,
            graph_cache_, samples, Data_mutex_, app_pc, graph_guard_condition_,
            log, partial_seen, n_events >>
transport == << query, qseq, rep >>
histories == << issued, added, popped, delivered, interleaved >>
codec == << att_in, att_bytes, att_out >>
locks == << holder, at >>
context == << next_entity_id_, id_at, entity_ids, Data_destructor >>
correlation == << config, store, transport, destroy_called, crashed, uaf,
                  destroyed,
                  histories, token_ >>
vars == << correlation, graph, codec, locks, context >>

NoReply == [pc |-> "none", q |-> 0, shape |-> "err"]

\* The attachment reply r carries.
Attachment(r) ==
  CASE rep[r].shape = "valid_t2" ->
         serialize_to_zbytes(qseq[rep[r].q], 2, SERVER_GID)
    [] rep[r].shape = "valid_t1" ->
         serialize_to_zbytes(qseq[rep[r].q], 1, SERVER_GID)
    [] OTHER -> MalformedAttachment(Malformation(r, rep[r].q), qseq[rep[r].q])

(***************************************************************************)
(* State after construction.  ClientData::ClientData sets wait_set_data_,  *)
(* sequence_number_, is_shutdown_ and num_in_flight_; the QoS profile is   *)
(* the adapted profile the store was created with.                         *)
(***************************************************************************)
\* The session context before its construction starts: nothing declared,
\* nothing cached, no sample delivered.
EmptyGraphCache == [entities |-> {}, index |-> {}]

\* The codec before any attachment was serialized or received.
NoAttachment == [sequence_number |-> 0, source_timestamp |-> 0, source_gid |-> ""]
NotDecoded == [ok |-> FALSE, error |-> ""]

CodecIdle ==
  /\ att_in = NoAttachment
  /\ att_bytes = << >>
  /\ att_out = NotDecoded

\* The threads that call into the store, none of them inside a method.
Threads == {"handler1", "handler2", "drop1", "drop2", "application"}
Mutexes == {"mutex_", "reply_queue_mutex_", "condition_mutex_",
            "in_flight_mutex_", "sequence_number_mutex_",
            "wait_set_data_->condition_mutex"}

\* The threads that create nodes and entities, none of them inside
\* get_next_entity_id; the context's destructor has not started.
IdCallers == {"app1", "app2", "app3"}

ContextIdle ==
  /\ next_entity_id_ = 0
  /\ id_at = [t \in IdCallers |-> [pc |-> "idle", id |-> 0]]
  /\ entity_ids = << >>
  /\ Data_destructor = "none"

\* A thread that is in no method of the store.
NotCalling == [method |-> "", pc |-> "idle"]

LocksIdle ==
  /\ holder = [m \in Mutexes |-> ""]
  /\ at = [t \in Threads |-> NotCalling]

GraphIdle ==
  /\ declared = {}
  /\ Data_pc = "new"
  /\ channel = {}
  /\ is_initialized_ = FALSE
  /\ graph_subscriber_ = FALSE
  /\ Data_is_shutdown_ = FALSE
  /\ graph_cache_ = EmptyGraphCache
  /\ samples = << >>
  /\ Data_mutex_ = ""
  /\ app_pc = "idle"
  /\ graph_guard_condition_ = 0
  /\ log = << >>
  /\ partial_seen = FALSE
  /\ n_events = 0

Init ==
  /\ impl \in Impls
  /\ history \in Histories
  /\ depth \in IF history = "KEEP_ALL" THEN {1} ELSE 0..MaxDepth
  /\ alive = TRUE
  /\ is_shutdown_ = FALSE
  /\ num_in_flight_ = 0
  /\ sequence_number_ = FIRST_SEQUENCE_NUMBER
  /\ reply_queue_ = << >>
  /\ reply_queue_mutex_ = 0
  /\ wait_set_data_ = FALSE
  /\ triggered = FALSE
  /\ query = [q \in Queries |-> "idle"]
  /\ qseq = [q \in Queries |-> 0]
  /\ rep = [r \in Replies |-> NoReply]
  /\ destroy_called = FALSE
  /\ crashed = FALSE
  /\ uaf = FALSE
  /\ issued = << >>
  /\ added = << >>
  /\ popped = << >>
  /\ delivered = << >>
  /\ interleaved = FALSE
  /\ token_ = "declared"
  /\ destroyed = 0
  /\ GraphIdle
  /\ CodecIdle
  /\ LocksIdle
  /\ ContextIdle

\* The process runs with defined behaviour: it has not aborted, and no
\* callback has touched the freed store (after that nothing is defined).
Running == ~crashed /\ ~uaf

\* The application still holds the client and the process runs.
AppCanCall == alive /\ ~destroy_called /\ Running

\* Handler invocations of query q that have started and not returned.
Returned == {"none", "done", "discarded", "uaf"}
Executing(q) == {r \in Replies : rep[r].q = q /\ rep[r].pc \notin Returned}
AnyExecuting == {r \in Replies : rep[r].pc \notin Returned}

\* Queries issued to the transport whose drop callback has not run.
Outstanding == {q \in Queries : query[q] = "issued"}

\* The next reply id the transport hands to a handler invocation.
NextReply == CHOOSE r \in Replies :
               /\ rep[r].pc = "none"
               /\ \A x \in Replies : x < r => rep[x].pc # "none"
\* The next query a send issues.
NextQuery == CHOOSE q \in Queries :
               /\ query[q] = "idle"
               /\ \A x \in Queries : x < q => query[x] # "idle"

SetPc(r, pc) == [rep EXCEPT ![r].pc = pc]

(***************************************************************************)
(* std::deque::pop_front() on an empty deque is undefined behaviour.  The  *)
(* outcomes kept: the process aborts; the call leaves the deque empty; the *)
(* deque's size wraps, so the element emplaced next is outside the visible *)
(* range and lost.                                                         *)
(***************************************************************************)
PopFrontEmptyOutcomes == {"abort", "noop", "lost"}

(***************************************************************************)
(* A drop callback that runs on a store that was already destructed calls  *)
(* a member function through a dangling pointer: undefined behaviour.  The *)
(* outcomes kept: the test of is_shutdown_ and num_in_flight_ on the freed *)
(* memory fails and nothing more happens; it succeeds and the store is     *)
(* handed to the node for removal (or destructed) a second time.           *)
(***************************************************************************)
UseAfterFreeOutcomes == {"nothing", "removed_again"}

(***************************************************************************)
(*                 class ClientData  (rmw_client_data.cpp)                 *)
(* Every method locks the one recursive mutex_ for its whole body, so a    *)
(* method is one atomic step.                                              *)
(***************************************************************************)
IsClientData == impl = "ClientData" /\ Running

\* Variant of the eviction test without the history comparison of line 269.
evicts_whatever_the_history(queue) == Len(queue) >= depth

\* ClientData::add_new_reply: does the eviction branch run
ClientData_evicts(queue) ==
  history # "KEEP_ALL" /\ Len(queue) >= depth


\* Variant of add_new_reply that inserts at the front of the deque
\* (emplace_front instead of the emplace_back of line 286).
add_new_reply_emplace_front(queue, r) ==
  IF ClientData_evicts(queue) THEN << r >> \o Tail(queue) ELSE << r >> \o queue

\* ClientData::add_new_reply: pop_front() when evicting, then emplace_back
ClientData_add_new_reply_queue(queue, r) ==
  IF ClientData_evicts(queue) THEN Append(Tail(queue), r) ELSE Append(queue, r)

\* Variant of add_new_reply without the notification of lines 289-294.
add_new_reply_without_trigger == triggered

\* ClientData::add_new_reply: wait_set_data_->triggered after the notify
ClientData_add_new_reply_triggered ==
  IF wait_set_data_ THEN TRUE ELSE triggered

\* ClientData::add_new_reply (one critical section of mutex_)
ClientData_add_new_reply(r) ==
  /\ added' = Append(added, r)
  /\ interleaved' = (interleaved \/ popped # << >>)
  /\ IF ClientData_evicts(reply_queue_) /\ reply_queue_ = << >>
       THEN \E outcome \in PopFrontEmptyOutcomes :
              /\ crashed' = (outcome = "abort")
              /\ reply_queue_' = IF outcome = "noop" THEN << r >> ELSE << >>
              /\ triggered' = IF outcome = "abort" THEN triggered
                              ELSE ClientData_add_new_reply_triggered
       ELSE /\ crashed' = crashed
            /\ reply_queue_' = ClientData_add_new_reply_queue(reply_queue_, r)
            /\ triggered' = ClientData_add_new_reply_triggered

\* client_data_handler up to the call of add_new_reply: the outcome of the
\* is_shutdown() and z_reply_is_ok() tests for a reply of this shape.
ClientData_handler_outcome(shape) ==
  IF is_shutdown_ THEN "discarded"
  ELSE IF shape = "err" THEN "discarded"
  ELSE "add"

\* client_data_handler, first step: is_shutdown() (its own lock/unlock of
\* mutex_), z_reply_is_ok, the received timestamp, z_reply_clone.
ClientData_client_data_handler(q, shape) ==
  /\ IsClientData
  /\ query[q] = "issued"
  /\ \E r \in Replies : rep[r].pc = "none"
  /\ LET r == NextReply IN
       IF alive
         THEN /\ rep' = [rep EXCEPT ![r] = [pc |-> ClientData_handler_outcome(shape),
                                            q |-> q, shape |-> shape]]
              /\ uaf' = uaf
         ELSE /\ rep' = [rep EXCEPT ![r] = [pc |-> "uaf", q |-> q, shape |-> shape]]
              /\ uaf' = TRUE
  /\ UNCHANGED << config, store, query, qseq, destroy_called, crashed, histories >>
  /\ UNCHANGED << token_, destroyed, graph, codec, locks, context >>

\* client_data_handler, second step: client_data->add_new_reply(...)
ClientData_client_data_handler_add(r) ==
  /\ IsClientData
  /\ rep[r].pc = "add"
  /\ IF alive
       THEN /\ ClientData_add_new_reply(r)
            /\ rep' = SetPc(r, "done")
            /\ uaf' = uaf
       ELSE /\ rep' = SetPc(r, "uaf")
            /\ uaf' = TRUE
            /\ UNCHANGED << added, interleaved, crashed, reply_queue_, triggered >>
  /\ UNCHANGED << config, alive, is_shutdown_, num_in_flight_, sequence_number_,
                  reply_queue_mutex_, wait_set_data_, query, qseq,
                  destroy_called, issued, popped, delivered >>
  /\ UNCHANGED << token_, destroyed, graph, codec, locks, context >>


\* Variant of send_request that hands out sequence_number_ without the
\* post-increment of line 403.
send_request_without_increment(n) == n

\* ClientData::send_request, line 403: sequence_number_ after
\* "*sequence_id = sequence_number_++"
ClientData_send_request_next_sequence_number(n) == n + 1

\* ClientData::send_request: num_in_flight_ when the call returns (the
\* method never writes it)
ClientData_send_request_num_in_flight(n) == n

\* ClientData::send_request: the value it returns.  The result of z_get
\* (lines 436-440) is not read; line 442 returns RMW_RET_OK.
ClientData_send_request_ret(shutdown, prepared, z_get_ok) ==
  IF shutdown THEN "RMW_RET_OK"
  ELSE IF ~prepared THEN "RMW_RET_ERROR"
  ELSE "RMW_RET_OK"

\* ClientData::send_request, lines 434-440: what becomes of the query.  A
\* z_get that fails delivers no reply; the closure it was given is still
\* dropped, which runs client_data_drop.
ClientData_send_request_z_get(z_get_ok) ==
  IF z_get_ok THEN "issued" ELSE "failed"

\* Variant of send_request without the is_shutdown_ test of lines 364-366.
send_request_without_shutdown_test(shutdown, prepared) == ~prepared

\* ClientData::send_request: does it return before line 403 (the test of
\* is_shutdown_ at 364, or one of the early returns that follow it)
ClientData_send_request_returns_early(shutdown, prepared) ==
  shutdown \/ ~prepared

\* ClientData::send_request (one critical section of mutex_).  prepared is
\* FALSE when one of the early returns before line 403 is taken (no context,
\* allocation failure, serialization failure); z_get_ok is FALSE when the
\* transport's z_get fails.
ClientData_send_request(prepared, z_get_ok) ==
  /\ IsClientData
  /\ AppCanCall
  /\ \E q \in Queries : query[q] = "idle"
  /\ IF ClientData_send_request_returns_early(is_shutdown_, prepared)
       THEN UNCHANGED << sequence_number_, issued, query, qseq, num_in_flight_ >>
       ELSE LET q == NextQuery IN
            /\ issued' = Append(issued, sequence_number_)
            /\ qseq' = [qseq EXCEPT ![q] = sequence_number_]
            /\ sequence_number_' =
                 ClientData_send_request_next_sequence_number(sequence_number_)
            /\ num_in_flight_' = ClientData_send_request_num_in_flight(num_in_flight_)
            /\ query' = [query EXCEPT ![q] = ClientData_send_request_z_get(z_get_ok)]
  /\ UNCHANGED << config, alive, is_shutdown_, reply_queue_, reply_queue_mutex_,
                  wait_set_data_, triggered, rep, destroy_called, crashed, uaf,
                  added, popped, delivered, interleaved >>
  /\ UNCHANGED << token_, destroyed, graph, codec, locks, context >>

\* attachement_data_t as take_response reads it: the decoded fields, or -1
\* for the two numbers when the attachment does not decode.
attachement_data_t(bytes) ==
  LET a == AttachmentData(bytes) IN
    IF a.ok THEN [sequence_number |-> a.sequence_number,
                  source_timestamp |-> a.source_timestamp]
            ELSE [sequence_number |-> -1, source_timestamp |-> -1]


\* Variant of take_response without the two attachment checks of lines
\* 339-348.
take_response_without_attachment_checks(r, deserialized) == deserialized

\* ClientData::take_response, lines 313-353: is the popped reply reported as
\* taken (deserialized: the payload deserializes into the ROS response)
ClientData_take_response_taken(r, deserialized) ==
  LET attachment == attachement_data_t(Attachment(r)) IN
    /\ deserialized
    /\ ~(attachment.sequence_number < 0)
    /\ ~(attachment.source_timestamp < 0)

\* Variant of take_response that removes the newest reply (back() instead of
\* the front() of line 310).
take_response_back(queue) == queue[Len(queue)]

\* ClientData::take_response: the reply it removes from the queue
ClientData_take_response_front(queue) == Head(queue)

\* Variant of take_response without the is_shutdown_ test of line 306.
take_response_without_shutdown_test(shutdown, queue) == queue = << >>

\* ClientData::take_response, lines 306-309: does it return with nothing
\* taken before it touches the queue
ClientData_take_response_returns_early(shutdown, queue) ==
  shutdown \/ queue = << >>

\* ClientData::take_response (one critical section of mutex_)
ClientData_take_response(deserialized) ==
  /\ IsClientData
  /\ AppCanCall
  /\ IF ClientData_take_response_returns_early(is_shutdown_, reply_queue_)
       THEN UNCHANGED << reply_queue_, popped, delivered >>
       ELSE LET r == ClientData_take_response_front(reply_queue_) IN
            /\ reply_queue_' = Tail(reply_queue_)
            /\ popped' = Append(popped, r)
            /\ delivered' = IF ClientData_take_response_taken(r, deserialized)
                              THEN Append(delivered, r) ELSE delivered
  /\ UNCHANGED << config, alive, is_shutdown_, num_in_flight_, sequence_number_,
                  reply_queue_mutex_, wait_set_data_, triggered, transport,
                  destroy_called, crashed, uaf, issued, added, interleaved >>
  /\ UNCHANGED << token_, destroyed, graph, codec, locks, context >>

\* ClientData::queue_has_data_and_attach_condition_if_not
ClientData_queue_has_data_and_attach_condition_if_not ==
  /\ IsClientData
  /\ AppCanCall
  /\ wait_set_data_' = IF reply_queue_ # << >> THEN wait_set_data_ ELSE TRUE
  /\ UNCHANGED << config, alive, is_shutdown_, num_in_flight_, sequence_number_,
                  reply_queue_, reply_queue_mutex_, triggered, transport,
                  destroy_called, crashed, uaf, histories >>
  /\ UNCHANGED << token_, destroyed, graph, codec, locks, context >>

\* ClientData::detach_condition_and_queue_is_empty
ClientData_detach_condition_and_queue_is_empty ==
  /\ IsClientData
  /\ AppCanCall
  /\ wait_set_data_' = FALSE
  /\ UNCHANGED << config, alive, is_shutdown_, num_in_flight_, sequence_number_,
                  reply_queue_, reply_queue_mutex_, triggered, transport,
                  destroy_called, crashed, uaf, histories >>
  /\ UNCHANGED << token_, destroyed, graph, codec, locks, context >>

\* ClientData::_shutdown: is_shutdown_ afterwards (undeclared: the liveliness
\* token's undeclare returned Z_OK)
ClientData__shutdown(undeclared) ==
  IF is_shutdown_ THEN is_shutdown_ ELSE undeclared

\* ClientData::_shutdown, lines 496-505: token_ afterwards.  A store that is
\* not shut down moves token_ into undeclare() whatever state it is in.
ClientData__shutdown_token(undeclared) ==
  IF is_shutdown_ THEN token_
  ELSE IF undeclared THEN "undeclared" ELSE "undeclare_failed"

\* ClientData::shutdown
ClientData_shutdown(undeclared) ==
  /\ IsClientData
  /\ AppCanCall
  /\ is_shutdown_' = ClientData__shutdown(undeclared)
  /\ UNCHANGED << config, alive, num_in_flight_, sequence_number_, reply_queue_,
                  reply_queue_mutex_, wait_set_data_, triggered, transport,
                  destroy_called, crashed, uaf, histories >>
  /\ token_' = ClientData__shutdown_token(undeclared)
  /\ UNCHANGED << destroyed, graph, codec, locks, context >>

\* ClientData::shutdown_and_query_in_flight: its return value
ClientData_shutdown_and_query_in_flight == num_in_flight_ > 0

\* NodeData::delete_client_data as the application's destroy calls it: the
\* store is shut down and, when no query is reported in flight, erased from
\* the node's collection, which destructs it (~ClientData calls shutdown()).
NodeData_delete_client_data(undeclared) ==
  /\ IsClientData
  /\ AppCanCall
  /\ destroy_called' = TRUE
  /\ is_shutdown_' = ClientData__shutdown(undeclared)
  /\ alive' = ClientData_shutdown_and_query_in_flight
  /\ destroyed' = IF ClientData_shutdown_and_query_in_flight
                    THEN destroyed ELSE destroyed + 1
  /\ UNCHANGED << config, num_in_flight_, sequence_number_, reply_queue_,
                  reply_queue_mutex_, wait_set_data_, triggered, transport,
                  crashed, uaf, histories >>
  /\ token_' = ClientData__shutdown_token(undeclared)
  /\ UNCHANGED << graph, codec, locks, context >>

\* ClientData::decrement_in_flight_and_conditionally_remove: does it tell the
\* node to drop the store (num: the counter after the decrement; found: the
\* context and the node data are both non-null)
ClientData_conditionally_remove(num, found) ==
  is_shutdown_ /\ num = 0 /\ found

\* client_data_drop -> ClientData::decrement_in_flight_and_conditionally_remove
\* (one critical section of mutex_)
ClientData_client_data_drop(q, found) ==
  /\ IsClientData
  /\ query[q] \in {"issued", "failed"}
  /\ Executing(q) = {}
  /\ query' = [query EXCEPT ![q] = "dropped"]
  /\ IF alive
       THEN /\ num_in_flight_' = num_in_flight_ - 1
            /\ alive' = ~ClientData_conditionally_remove(num_in_flight_ - 1, found)
            /\ destroyed' =
                 IF ClientData_conditionally_remove(num_in_flight_ - 1, found)
                   THEN destroyed + 1 ELSE destroyed
            /\ uaf' = uaf
       ELSE /\ uaf' = TRUE
            /\ \E outcome \in UseAfterFreeOutcomes :
                 destroyed' = IF outcome = "removed_again"
                                THEN destroyed + 1 ELSE destroyed
            /\ UNCHANGED << num_in_flight_, alive >>
  /\ UNCHANGED << config, is_shutdown_, sequence_number_, reply_queue_,
                  reply_queue_mutex_, wait_set_data_, triggered, qseq, rep,
                  destroy_called, crashed, histories >>
  /\ UNCHANGED << token_, graph, codec, locks, context >>

(***************************************************************************)
(*              struct rmw_client_data_t  (rmw_data_types.cpp)             *)
(* Four mutexes: reply_queue_mutex_ (the queue), condition_mutex_ (the     *)
(* wait-set pointer), in_flight_mutex_ (counter and shutdown flag) and     *)
(* sequence_number_mutex_.  add_new_reply holds reply_queue_mutex_ over    *)
(* its whole body and takes condition_mutex_ inside notify(), so it is two *)
(* steps; the other methods are one critical section each.                 *)
(***************************************************************************)
IsLegacy == impl = "rmw_client_data_t" /\ Running

\* rmw_client_data_t::add_new_reply: does the eviction branch run
rmw_client_data_t_evicts(queue) ==
  history # "KEEP_ALL" /\ Len(queue) >= depth

\* rmw_client_data_t::add_new_reply: pop_front() when evicting, emplace_back
rmw_client_data_t_add_new_reply_queue(queue, r) ==
  IF rmw_client_data_t_evicts(queue) THEN Append(Tail(queue), r)
                                     ELSE Append(queue, r)

\* rmw_client_data_t::add_new_reply up to the call of notify(): locks
\* reply_queue_mutex_, evicts, enqueues, triggers the user callback.
rmw_client_data_t_add_new_reply(r) ==
  /\ reply_queue_mutex_ = 0
  /\ reply_queue_mutex_' = r
  /\ added' = Append(added, r)
  /\ interleaved' = (interleaved \/ popped # << >>)
  /\ IF rmw_client_data_t_evicts(reply_queue_) /\ reply_queue_ = << >>
       THEN \E outcome \in PopFrontEmptyOutcomes :
              /\ crashed' = (outcome = "abort")
              /\ reply_queue_' = IF outcome = "noop" THEN << r >> ELSE << >>
       ELSE /\ crashed' = crashed
            /\ reply_queue_' = rmw_client_data_t_add_new_reply_queue(reply_queue_, r)

\* rmw_client_data_t::notify, and the return of add_new_reply, which unlocks
\* reply_queue_mutex_
rmw_client_data_t_notify(r) ==
  /\ reply_queue_mutex_ = r
  /\ reply_queue_mutex_' = 0
  /\ triggered' = IF wait_set_data_ THEN TRUE ELSE triggered

\* client_data_handler (rmw_data_types.cpp) up to its first add_new_reply:
\* the outcome of the is_shutdown() and z_reply_is_ok() tests
rmw_client_data_t_handler_outcome(shape) ==
  IF is_shutdown_ THEN "discarded"
  ELSE IF shape = "err" THEN "discarded"
  ELSE "add"

\* client_data_handler (rmw_data_types.cpp), lines 148-167
rmw_client_data_t_client_data_handler(q, shape) ==
  /\ IsLegacy
  /\ query[q] = "issued"
  /\ \E r \in Replies : rep[r].pc = "none"
  /\ LET r == NextReply IN
       IF alive
         THEN /\ rep' = [rep EXCEPT ![r] =
                           [pc |-> rmw_client_data_t_handler_outcome(shape),
                            q |-> q, shape |-> shape]]
              /\ uaf' = uaf
         ELSE /\ rep' = [rep EXCEPT ![r] = [pc |-> "uaf", q |-> q, shape |-> shape]]
              /\ uaf' = TRUE
  /\ UNCHANGED << config, store, query, qseq, destroy_called, crashed, histories >>
  /\ UNCHANGED << token_, destroyed, graph, codec, locks, context >>

\* client_data_handler (rmw_data_types.cpp): where the handler goes after the
\* add_new_reply call that began at pc
rmw_client_data_t_handler_after_add(pc) ==
  IF pc = "add" THEN "add2" ELSE "done"

\* client_data_handler (rmw_data_types.cpp), line 168 and line 189: the two
\* calls of add_new_reply, each up to its notify()
rmw_client_data_t_client_data_handler_add(r) ==
  /\ IsLegacy
  /\ rep[r].pc \in {"add", "add2"}
  /\ IF alive
       THEN /\ rmw_client_data_t_add_new_reply(r)
            /\ rep' = SetPc(r, IF rep[r].pc = "add" THEN "notify" ELSE "notify2")
            /\ uaf' = uaf
       ELSE /\ rep' = SetPc(r, "uaf")
            /\ uaf' = TRUE
            /\ UNCHANGED << added, interleaved, crashed, reply_queue_, reply_queue_mutex_ >>
  /\ UNCHANGED << config, alive, is_shutdown_, num_in_flight_, sequence_number_,
                  wait_set_data_, triggered, query, qseq, destroy_called,
                  issued, popped, delivered >>
  /\ UNCHANGED << token_, destroyed, graph, codec, locks, context >>

\* client_data_handler (rmw_data_types.cpp): the notify() that ends each of
\* the two add_new_reply calls
rmw_client_data_t_client_data_handler_notify(r) ==
  /\ IsLegacy
  /\ rep[r].pc \in {"notify", "notify2"}
  /\ IF alive
       THEN /\ rmw_client_data_t_notify(r)
            /\ rep' = SetPc(r, rmw_client_data_t_handler_after_add(
                                 IF rep[r].pc = "notify" THEN "add" ELSE "add2"))
            /\ uaf' = uaf
       ELSE /\ rep' = SetPc(r, "uaf")
            /\ uaf' = TRUE
            /\ UNCHANGED << triggered, reply_queue_mutex_ >>
  /\ UNCHANGED << config, alive, is_shutdown_, num_in_flight_, sequence_number_,
                  reply_queue_, wait_set_data_, query, qseq, destroy_called,
                  crashed, histories >>
  /\ UNCHANGED << token_, destroyed, graph, codec, locks, context >>

\* rmw_client_data_t::pop_next_reply: the reply it removes
rmw_client_data_t_pop_next_reply_front(queue) == Head(queue)

\* rmw_client_data_t::pop_next_reply
rmw_client_data_t_pop_next_reply ==
  /\ IsLegacy
  /\ AppCanCall
  /\ reply_queue_mutex_ = 0
  /\ IF reply_queue_ = << >>
       THEN UNCHANGED << reply_queue_, popped >>
       ELSE /\ popped' = Append(popped,
                                rmw_client_data_t_pop_next_reply_front(reply_queue_))
            /\ reply_queue_' = Tail(reply_queue_)
  /\ UNCHANGED << config, alive, is_shutdown_, num_in_flight_, sequence_number_,
                  reply_queue_mutex_, wait_set_data_, triggered, transport,
                  destroy_called, crashed, uaf, issued, added, delivered,
                  interleaved >>
  /\ UNCHANGED << token_, destroyed, graph, codec, locks, context >>

\* rmw_client_data_t::queue_has_data_and_attach_condition_if_not
rmw_client_data_t_queue_has_data_and_attach_condition_if_not ==
  /\ IsLegacy
  /\ AppCanCall
  /\ wait_set_data_' = IF reply_queue_ # << >> THEN wait_set_data_ ELSE TRUE
  /\ UNCHANGED << config, alive, is_shutdown_, num_in_flight_, sequence_number_,
                  reply_queue_, reply_queue_mutex_, triggered, transport,
                  destroy_called, crashed, uaf, histories >>
  /\ UNCHANGED << token_, destroyed, graph, codec, locks, context >>

\* rmw_client_data_t::detach_condition_and_queue_is_empty
rmw_client_data_t_detach_condition_and_queue_is_empty ==
  /\ IsLegacy
  /\ AppCanCall
  /\ wait_set_data_' = FALSE
  /\ UNCHANGED << config, alive, is_shutdown_, num_in_flight_, sequence_number_,
                  reply_queue_, reply_queue_mutex_, triggered, transport,
                  destroy_called, crashed, uaf, histories >>
  /\ UNCHANGED << token_, destroyed, graph, codec, locks, context >>

\* rmw_client_data_t::get_next_sequence_number: sequence_number_ after
\* "return sequence_number_++"
rmw_client_data_t_get_next_sequence_number(n) == n + 1

\* rmw_client_data_t::increment_in_flight_callbacks
rmw_client_data_t_increment_in_flight_callbacks(n) == n + 1

\* The send path of the rmw layer over rmw_client_data_t: it takes the next
\* sequence number, registers the in-flight callback and issues the query.
rmw_send_request ==
  /\ IsLegacy
  /\ AppCanCall
  /\ \E q \in Queries : query[q] = "idle"
  /\ LET q == NextQuery IN
       /\ issued' = Append(issued, sequence_number_)
       /\ qseq' = [qseq EXCEPT ![q] = sequence_number_]
       /\ sequence_number_' =
            rmw_client_data_t_get_next_sequence_number(sequence_number_)
       /\ num_in_flight_' =
            rmw_client_data_t_increment_in_flight_callbacks(num_in_flight_)
       /\ query' = [query EXCEPT ![q] = "issued"]
  /\ UNCHANGED << config, alive, is_shutdown_, reply_queue_, reply_queue_mutex_,
                  wait_set_data_, triggered, rep, destroy_called, crashed, uaf,
                  added, popped, delivered, interleaved >>
  /\ UNCHANGED << token_, destroyed, graph, codec, locks, context >>

\* rmw_client_data_t::shutdown_and_query_in_flight: its return value
rmw_client_data_t_shutdown_and_query_in_flight == num_in_flight_ > 0

\* The destroy path of the rmw layer over rmw_client_data_t: it calls
\* shutdown_and_query_in_flight and destructs the store when no query is
\* reported in flight.
rmw_destroy_client ==
  /\ IsLegacy
  /\ AppCanCall
  /\ destroy_called' = TRUE
  /\ is_shutdown_' = TRUE
  /\ alive' = rmw_client_data_t_shutdown_and_query_in_flight
  /\ destroyed' = IF rmw_client_data_t_shutdown_and_query_in_flight
                    THEN destroyed ELSE destroyed + 1
  /\ UNCHANGED << config, num_in_flight_, sequence_number_, reply_queue_,
                  reply_queue_mutex_, wait_set_data_, triggered, transport,
                  crashed, uaf, histories >>
  /\ UNCHANGED << token_, graph, codec, locks, context >>

\* client_data_drop (rmw_data_types.cpp), lines 207-216: does it destruct and
\* deallocate the store (num: the counter after the decrement of
\* decrement_queries_in_flight_and_is_shutdown)
rmw_client_data_t_drop_destroys(num) ==
  LET queries_in_flight == num > 0 IN
    is_shutdown_ /\ ~queries_in_flight

\* client_data_drop (rmw_data_types.cpp)
rmw_client_data_t_client_data_drop(q) ==
  /\ IsLegacy
  /\ query[q] = "issued"
  /\ Executing(q) = {}
  /\ query' = [query EXCEPT ![q] = "dropped"]
  /\ IF alive
       THEN /\ num_in_flight_' = num_in_flight_ - 1
            /\ alive' = ~rmw_client_data_t_drop_destroys(num_in_flight_ - 1)
            /\ destroyed' = IF rmw_client_data_t_drop_destroys(num_in_flight_ - 1)
                              THEN destroyed + 1 ELSE destroyed
            /\ uaf' = uaf
       ELSE /\ uaf' = TRUE
            /\ \E outcome \in UseAfterFreeOutcomes :
                 destroyed' = IF outcome = "removed_again"
                                THEN destroyed + 1 ELSE destroyed
            /\ UNCHANGED << num_in_flight_, alive >>
  /\ UNCHANGED << config, is_shutdown_, sequence_number_, reply_queue_,
                  reply_queue_mutex_, wait_set_data_, triggered, qseq, rep,
                  destroy_called, crashed, histories >>
  /\ UNCHANGED << token_, graph, codec, locks, context >>

Next ==
  \/ \E prepared, z_get_ok \in BOOLEAN : ClientData_send_request(prepared, z_get_ok)
  \/ \E q \in Queries, shape \in Shapes : ClientData_client_data_handler(q, shape)
  \/ \E r \in Replies : ClientData_client_data_handler_add(r)
  \/ \E q \in Queries, found \in BOOLEAN : ClientData_client_data_drop(q, found)
  \/ \E deserialized \in BOOLEAN : ClientData_take_response(deserialized)
  \/ ClientData_queue_has_data_and_attach_condition_if_not
  \/ ClientData_detach_condition_and_queue_is_empty
  \/ \E undeclared \in BOOLEAN : ClientData_shutdown(undeclared)
  \/ \E undeclared \in BOOLEAN : NodeData_delete_client_data(undeclared)
  \/ rmw_send_request
  \/ \E q \in Queries, shape \in Shapes : rmw_client_data_t_client_data_handler(q, shape)
  \/ \E r \in Replies : rmw_client_data_t_client_data_handler_add(r)
  \/ \E r \in Replies : rmw_client_data_t_client_data_handler_notify(r)
  \/ \E q \in Queries : rmw_client_data_t_client_data_drop(q)
  \/ rmw_client_data_t_pop_next_reply
  \/ rmw_client_data_t_queue_has_data_and_attach_condition_if_not
  \/ rmw_client_data_t_detach_condition_and_queue_is_empty
  \/ rmw_destroy_client

Spec == Init /\ [][Next]_vars

(***************************************************************************)
(*        rmw_context_impl_s and its Data  (rmw_context_impl_s.cpp)        *)
(* The context owns the graph cache, seeds it in the constructor of Data   *)
(* from zc_liveliness_get and keeps it live from the liveliness            *)
(* subscriber declared by subscribe().  Every member function that touches *)
(* the cache takes Data::mutex_; the constructor runs before any other     *)
(* thread can reach the object.  GraphCache and the liveliness key format  *)
(* are not part of these sources: they follow the specification (an entity *)
(* set keyed by identity with derived indexes, idempotent put and delete). *)
(***************************************************************************)
OWN_ZID == "zid_own"
REMOTE_ZID == "zid_remote"

\* The presence tokens of the model: a remote node, a remote publisher on
\* "/t", a subscription of the context's own session on "/t", and a
\* publisher token that lacks its topic fields.
Tokens == {"node", "pub", "own_sub", "bad"}

\* The key expression of a token: zid / nid / id / kind / namespace / node
\* name [/ topic name / type name].
Keyexpr(t) ==
  CASE t = "node" -> << REMOTE_ZID, "0", "0", "NN", "/ns", "n1" >>
    [] t = "pub" -> << REMOTE_ZID, "0", "1", "MP", "/ns", "n1", "/t", "Pkg/Msg" >>
    [] t = "own_sub" -> << OWN_ZID, "0", "2", "MS", "/ns", "n2", "/t", "Pkg/Msg" >>
    [] OTHER -> << REMOTE_ZID, "0", "3", "MP", "/ns", "n1" >>

\* liveliness::Entity::make: the entity a key expression decodes to, or no
\* entity when a field is missing or the kind is unknown.
liveliness_Entity_make(keyexpr) ==
  IF Len(keyexpr) < 6 \/ keyexpr[4] \notin {"NN", "MP", "MS"}
    THEN [ok |-> FALSE]
  ELSE IF keyexpr[4] = "NN"
    THEN IF Len(keyexpr) # 6 THEN [ok |-> FALSE]
         ELSE [ok |-> TRUE, zid |-> keyexpr[1], nid |-> keyexpr[2],
               id |-> keyexpr[3], kind |-> keyexpr[4], ns |-> keyexpr[5],
               name |-> keyexpr[6], topic |-> "", type |-> ""]
  ELSE IF Len(keyexpr) # 8 THEN [ok |-> FALSE]
  ELSE [ok |-> TRUE, zid |-> keyexpr[1], nid |-> keyexpr[2],
        id |-> keyexpr[3], kind |-> keyexpr[4], ns |-> keyexpr[5],
        name |-> keyexpr[6], topic |-> keyexpr[7], type |-> keyexpr[8]]

\* The entities the tokens of the model decode to.
Entity(t) == liveliness_Entity_make(Keyexpr(t))
Decodable(t) == Entity(t).ok
OwnSession(t) == Decodable(t) /\ Entity(t).zid = OWN_ZID

\* GraphCache: the derived indexes that match a primary entity set (the
\* topic-bearing entities, looked up by topic name).
GraphCache_index(entities) == {e \in entities : e.kind \in {"MP", "MS"}}

\* GraphCache::parse_put: is the token taken into the cache
GraphCache_parse_put_accepts(keyexpr, ignore_from_current_session) ==
  LET e == liveliness_Entity_make(keyexpr) IN
    e.ok /\ ~(ignore_from_current_session /\ e.zid = OWN_ZID)

\* GraphCache::parse_put: the primary entity set afterwards
GraphCache_parse_put(entities, keyexpr, ignore_from_current_session) ==
  IF GraphCache_parse_put_accepts(keyexpr, ignore_from_current_session)
    THEN entities \cup {liveliness_Entity_make(keyexpr)}
    ELSE entities

\* GraphCache::parse_del: the primary entity set afterwards
GraphCache_parse_del(entities, keyexpr) ==
  LET e == liveliness_Entity_make(keyexpr) IN
    IF e.ok THEN entities \ {e} ELSE entities

\* GraphCache::get_topic_names_and_types
GraphCache_get_topic_names_and_types(cache) ==
  {[name |-> topic, types |-> {e.type : e \in {x \in cache.index : x.topic = topic}}] :
     topic \in {e.topic : e \in cache.index}}

\* GraphCache::count_publishers
GraphCache_count_publishers(cache, topic_name) ==
  Cardinality({e \in cache.index : e.kind = "MP" /\ e.topic = topic_name})

\* GraphCache::get_node_names
GraphCache_get_node_names(cache) ==
  {<< e.ns, e.name >> : e \in cache.entities}

\* A liveliness sample waiting for, or inside, graph_sub_data_handler.
Sample(kind, t) == [kind |-> kind, token |-> t, pc |-> "queued"]

\* The transport's liveliness subscriber: a declared subscriber is sent one
\* sample for the change of a token; nobody else is.
Deliver(kind, t) ==
  IF graph_subscriber_ THEN Append(samples, Sample(kind, t)) ELSE samples

\* A remote session or the own session declares a presence token.
DeclareToken(t) ==
  /\ n_events < MaxEvents
  /\ Data_pc # "failed"
  /\ t \notin declared
  /\ declared' = declared \cup {t}
  /\ samples' = Deliver("PUT", t)
  /\ n_events' = n_events + 1
  /\ UNCHANGED << Data_pc, channel, is_initialized_, graph_subscriber_,
                  Data_is_shutdown_, graph_cache_, Data_mutex_, app_pc,
                  graph_guard_condition_, log, partial_seen, correlation, codec,
                  locks, context >>

\* A session undeclares a presence token (or goes away).
UndeclareToken(t) ==
  /\ n_events < MaxEvents
  /\ Data_pc # "failed"
  /\ t \in declared
  /\ declared' = declared \ {t}
  /\ samples' = Deliver("DELETE", t)
  /\ n_events' = n_events + 1
  /\ UNCHANGED << Data_pc, channel, is_initialized_, graph_subscriber_,
                  Data_is_shutdown_, graph_cache_, Data_mutex_, app_pc,
                  graph_guard_condition_, log, partial_seen, correlation, codec,
                  locks, context >>

\* One call of parse_put / parse_del as the history records it; an invalid
\* reply of the enumeration is recorded with kind "INVALID" and no token.
Logged(src, kind, t, ok) == [src |-> src, kind |-> kind, token |-> t, ok |-> ok]

\* Data::Data, lines 110-113: zc_liveliness_get answers with the tokens
\* declared at that moment.
Data_Data_liveliness_get ==
  /\ Data_pc = "new"
  /\ Data_pc' = "recv"
  /\ channel' = declared
  /\ UNCHANGED << declared, is_initialized_, graph_subscriber_,
                  Data_is_shutdown_, graph_cache_, samples, Data_mutex_, app_pc,
                  graph_guard_condition_, log, partial_seen, n_events,
                  correlation, codec,
                  locks, context >>

\* Variant of the constructor that calls parse_put(keystr, false).
parse_put_without_ignore == FALSE

\* Data::Data, line 126: the second argument of parse_put
Data_Data_ignore_from_current_session == TRUE

\* Data::Data, lines 115-132: one round of the receive loop (reply_ok:
\* z_reply_is_ok).  A valid reply carries the key expression of one token of
\* the snapshot; an invalid reply carries none and is only logged (one
\* may arrive, ahead of the valid ones).  The constructor is the only thread, so a put is whole.
Data_Data_recv(t, reply_ok) ==
  /\ Data_pc = "recv"
  /\ t \in channel
  /\ IF reply_ok
       THEN LET entities == GraphCache_parse_put(
                              graph_cache_.entities, Keyexpr(t),
                              Data_Data_ignore_from_current_session) IN
            /\ channel' = channel \ {t}
            /\ graph_cache_' = [entities |-> entities,
                                index |-> GraphCache_index(entities)]
            /\ log' = Append(log, Logged("get", "PUT", t,
                        GraphCache_parse_put_accepts(
                          Keyexpr(t), Data_Data_ignore_from_current_session)))
       ELSE /\ log = << >>
            /\ log' = Append(log, Logged("get", "INVALID", "none", FALSE))
            /\ UNCHANGED << channel, graph_cache_ >>
  /\ UNCHANGED << declared, Data_pc, is_initialized_, graph_subscriber_,
                  Data_is_shutdown_, samples, Data_mutex_, app_pc,
                  graph_guard_condition_, partial_seen, n_events, correlation, codec,
                  locks, context >>

\* Data::Data, lines 133-135: the channel is closed, the constructor returns.
Data_Data_return ==
  /\ Data_pc = "recv"
  /\ channel = {}
  /\ Data_pc' = "constructed"
  /\ UNCHANGED << declared, channel, is_initialized_, graph_subscriber_,
                  Data_is_shutdown_, graph_cache_, samples, Data_mutex_, app_pc,
                  graph_guard_condition_, log, partial_seen, n_events,
                  correlation, codec,
                  locks, context >>

\* Data::subscribe (subscriber_ok: z_check(graph_subscriber_)).  When it
\* fails the constructor of rmw_context_impl_s throws and no context exists.
Data_subscribe(subscriber_ok) ==
  /\ Data_pc = "constructed"
  /\ ~is_initialized_
  /\ IF subscriber_ok
       THEN /\ graph_subscriber_' = TRUE
            /\ is_initialized_' = TRUE
            /\ Data_pc' = Data_pc
       ELSE /\ Data_pc' = "failed"
            /\ UNCHANGED << graph_subscriber_, is_initialized_ >>
  /\ UNCHANGED << declared, channel, Data_is_shutdown_, graph_cache_, samples,
                  Data_mutex_, app_pc, graph_guard_condition_, log,
                  partial_seen, n_events, correlation, codec,
                  locks, context >>

\* Variant of the member functions without the lock_guard on mutex_.
lock_guard_removed(mutex) == TRUE

\* std::lock_guard<std::mutex> lock(data_->mutex_): can the caller proceed
Data_mutex_lock(mutex) == mutex = ""

\* The samples of one token are handed to the callback in order.
FirstOfToken(i) == \A j \in 1..(i - 1) : samples[j].token # samples[i].token

\* samples without its i-th element
Handled(i) == SubSeq(samples, 1, i - 1) \o SubSeq(samples, i + 1, Len(samples))

\* graph_sub_data_handler, line 47: the callback takes mutex_
graph_sub_data_handler_lock(i) ==
  /\ i \in 1..Len(samples)
  /\ samples[i].pc = "queued"
  /\ FirstOfToken(i)
  /\ Data_mutex_lock(Data_mutex_)
  /\ Data_mutex_' = samples[i].token
  /\ samples' = [samples EXCEPT ![i].pc = "locked"]
  /\ UNCHANGED << declared, Data_pc, channel, is_initialized_,
                  graph_subscriber_, Data_is_shutdown_, graph_cache_, app_pc,
                  graph_guard_condition_, log, partial_seen, n_events,
                  correlation, codec,
                  locks, context >>

\* Variants of the switch of graph_sub_data_handler: a PUT sample handed to
\* parse_del, a DELETE sample handed to parse_put, a PUT sample ignored.
switch_put_as_delete(shutdown, kind) ==
  IF shutdown THEN "return"
  ELSE IF kind \in {"PUT", "DELETE"} THEN "parse_del" ELSE "return"

switch_delete_as_put(shutdown, kind) ==
  IF shutdown THEN "return"
  ELSE IF kind \in {"PUT", "DELETE"} THEN "parse_put" ELSE "return"

switch_put_ignored(shutdown, kind) ==
  IF shutdown THEN "return"
  ELSE IF kind = "DELETE" THEN "parse_del" ELSE "return"

\* Variant of the switch without the is_shutdown_ test of lines 49-51.
switch_without_shutdown_test(shutdown, kind) ==
  CASE kind = "PUT" -> "parse_put"
    [] kind = "DELETE" -> "parse_del"
    [] OTHER -> "return"

\* graph_sub_data_handler, lines 48-60: what the callback does with a sample
graph_sub_data_handler_switch(shutdown, kind) ==
  IF shutdown THEN "return"
  ELSE CASE kind = "PUT" -> "parse_put"
         [] kind = "DELETE" -> "parse_del"
         [] OTHER -> "return"

\* graph_sub_data_handler, lines 48-60.  parse_put / parse_del change the
\* primary entity set here and the indexes in the callback's next step.
graph_sub_data_handler_parse(i) ==
  /\ i \in 1..Len(samples)
  /\ samples[i].pc = "locked"
  /\ LET t == samples[i].token
         do == graph_sub_data_handler_switch(Data_is_shutdown_, samples[i].kind)
     IN
       CASE do = "parse_put" ->
              /\ graph_cache_' = [graph_cache_ EXCEPT !.entities =
                   GraphCache_parse_put(graph_cache_.entities, Keyexpr(t), FALSE)]
              /\ log' = Append(log, Logged("sub", samples[i].kind, t,
                          GraphCache_parse_put_accepts(Keyexpr(t), FALSE)))
              /\ samples' = [samples EXCEPT ![i].pc = "index"]
              /\ UNCHANGED Data_mutex_
         [] do = "parse_del" ->
              /\ graph_cache_' = [graph_cache_ EXCEPT !.entities =
                   GraphCache_parse_del(graph_cache_.entities, Keyexpr(t))]
              /\ log' = Append(log, Logged("sub", samples[i].kind, t, Decodable(t)))
              /\ samples' = [samples EXCEPT ![i].pc = "index"]
              /\ UNCHANGED Data_mutex_
         [] OTHER ->
              /\ samples' = Handled(i)
              /\ Data_mutex_' = ""
              /\ UNCHANGED << graph_cache_, log >>
  /\ UNCHANGED << declared, Data_pc, channel, is_initialized_,
                  graph_subscriber_, Data_is_shutdown_, app_pc,
                  graph_guard_condition_, partial_seen, n_events, correlation, codec,
                  locks, context >>

\* graph_sub_data_handler, lines 62-70: parse_put / parse_del has returned
\* (the indexes match the entity set again), the guard condition is
\* triggered and mutex_ is released.
graph_sub_data_handler_trigger(i) ==
  /\ i \in 1..Len(samples)
  /\ samples[i].pc = "index"
  /\ graph_cache_' = [graph_cache_ EXCEPT
                        !.index = GraphCache_index(graph_cache_.entities)]
  /\ graph_guard_condition_' = graph_guard_condition_ + 1
  /\ samples' = Handled(i)
  /\ Data_mutex_' = ""
  /\ UNCHANGED << declared, Data_pc, channel, is_initialized_,
                  graph_subscriber_, Data_is_shutdown_, app_pc, log,
                  partial_seen, n_events, correlation, codec,
                  locks, context >>

\* The accessors of rmw_context_impl_s that read or write the graph cache.
Accessors == {"get_topic_names_and_types", "set_qos_event_callback"}

\* An accessor (lines 288-452) takes mutex_.
rmw_context_impl_s_accessor_lock(op) ==
  /\ is_initialized_
  /\ app_pc = "idle"
  /\ Data_mutex_lock(Data_mutex_)
  /\ Data_mutex_' = "app"
  /\ app_pc' = op
  /\ UNCHANGED << declared, Data_pc, channel, is_initialized_,
                  graph_subscriber_, Data_is_shutdown_, graph_cache_, samples,
                  graph_guard_condition_, log, partial_seen, n_events,
                  correlation, codec,
                  locks, context >>

\* The accessor calls into the graph cache and returns, releasing mutex_.
rmw_context_impl_s_accessor_return ==
  /\ app_pc # "idle"
  /\ partial_seen' = (partial_seen
                        \/ graph_cache_.index # GraphCache_index(graph_cache_.entities))
  /\ app_pc' = "idle"
  /\ Data_mutex_' = ""
  /\ UNCHANGED << declared, Data_pc, channel, is_initialized_,
                  graph_subscriber_, Data_is_shutdown_, graph_cache_, samples,
                  graph_guard_condition_, log, n_events, correlation, codec,
                  locks, context >>

\* Data::shutdown (closed: z_close succeeded), one critical section of mutex_
Data_shutdown(closed) ==
  /\ is_initialized_
  /\ Data_mutex_lock(Data_mutex_)
  /\ ~Data_is_shutdown_
  /\ graph_subscriber_' = FALSE
  /\ Data_is_shutdown_' = closed
  /\ UNCHANGED << declared, Data_pc, channel, is_initialized_, graph_cache_,
                  samples, Data_mutex_, app_pc, graph_guard_condition_, log,
                  partial_seen, n_events, correlation, codec,
                  locks, context >>

\* The session context from its construction on, with the presence tokens
\* that exist before it starts.
GraphInit ==
  /\ impl = "ClientData" /\ history = "KEEP_LAST" /\ depth = 1
  /\ alive = TRUE /\ is_shutdown_ = FALSE /\ num_in_flight_ = 0
  /\ sequence_number_ = FIRST_SEQUENCE_NUMBER
  /\ reply_queue_ = << >> /\ reply_queue_mutex_ = 0
  /\ wait_set_data_ = FALSE /\ triggered = FALSE
  /\ query = [q \in Queries |-> "idle"]
  /\ qseq = [q \in Queries |-> 0]
  /\ rep = [r \in Replies |-> NoReply]
  /\ destroy_called = FALSE /\ crashed = FALSE /\ uaf = FALSE
  /\ issued = << >> /\ added = << >> /\ popped = << >> /\ delivered = << >>
  /\ interleaved = FALSE
  /\ token_ = "declared"
  /\ destroyed = 0
  /\ CodecIdle
  /\ LocksIdle
  /\ ContextIdle
  /\ declared \in SUBSET Tokens
  /\ Data_pc = "new"
  /\ channel = {}
  /\ is_initialized_ = FALSE
  /\ graph_subscriber_ = FALSE
  /\ Data_is_shutdown_ = FALSE
  /\ graph_cache_ = EmptyGraphCache
  /\ samples = << >>
  /\ Data_mutex_ = ""
  /\ app_pc = "idle"
  /\ graph_guard_condition_ = 0
  /\ log = << >>
  /\ partial_seen = FALSE
  /\ n_events = 0

GraphNext ==
  \/ \E t \in Tokens : DeclareToken(t)
  \/ \E t \in Tokens : UndeclareToken(t)
  \/ Data_Data_liveliness_get
  \/ \E t \in Tokens, reply_ok \in BOOLEAN : Data_Data_recv(t, reply_ok)
  \/ Data_Data_return
  \/ \E subscriber_ok \in BOOLEAN : Data_subscribe(subscriber_ok)
  \/ \E i \in 1..MaxEvents : graph_sub_data_handler_lock(i)
  \/ \E i \in 1..MaxEvents : graph_sub_data_handler_parse(i)
  \/ \E i \in 1..MaxEvents : graph_sub_data_handler_trigger(i)
  \/ \E op \in Accessors : rmw_context_impl_s_accessor_lock(op)
  \/ rmw_context_impl_s_accessor_return
  \/ \E closed \in BOOLEAN : Data_shutdown(closed)

GraphSpec == GraphInit /\ [][GraphNext]_vars

(***************************************************************************)
(*                 The attachment codec on its own                         *)
(* A sender serializes a triple with serialize_to_zbytes; what the         *)
(* receiver is handed is either those bytes or bytes of a peer that differ *)
(* from them in one place (an item replaced, items missing at the end, an  *)
(* item too many); the receiver runs the decoding constructor on them.     *)
(***************************************************************************)
Int64Values == {-1, 0, 1, 2}
Gids == {"gid_a", "gid_b"}

\* The items a peer may put in place of, or behind, the ones expected.
PeerItems ==
  {StrItem(t) : t \in {"sequence_number", "source_timestamp", "source_gid", "x"}}
    \cup {IntItem(7)}
    \cup {SliceItem(len, "gid_a") : len \in {GID_LEN - 1, GID_LEN}}

\* The client store and the session context as a codec run leaves them.
StoreIdle ==
  /\ history = "KEEP_LAST" /\ depth = 1
  /\ alive = TRUE /\ is_shutdown_ = FALSE /\ num_in_flight_ = 0
  /\ sequence_number_ = FIRST_SEQUENCE_NUMBER
  /\ reply_queue_ = << >> /\ reply_queue_mutex_ = 0
  /\ wait_set_data_ = FALSE /\ triggered = FALSE
  /\ query = [q \in Queries |-> "idle"]
  /\ qseq = [q \in Queries |-> 0]
  /\ rep = [r \in Replies |-> NoReply]
  /\ destroy_called = FALSE /\ crashed = FALSE /\ uaf = FALSE
  /\ issued = << >> /\ added = << >> /\ popped = << >> /\ delivered = << >>
  /\ interleaved = FALSE
  /\ token_ = "declared"
  /\ destroyed = 0

\* AttachmentData::AttachmentData(sequence_number, source_timestamp,
\* source_gid) followed by serialize_to_zbytes
AttachmentData_serialize_to_zbytes(sequence_number, source_timestamp, gid) ==
  /\ att_in' = [sequence_number |-> sequence_number,
                source_timestamp |-> source_timestamp,
                source_gid |-> gid]
  /\ att_bytes' = serialize_to_zbytes(sequence_number, source_timestamp, gid)
  /\ att_out' = NotDecoded
  /\ UNCHANGED << correlation, graph, locks, context >>

\* A peer's attachment: the serialized one with item i replaced.
Peer_replace(i, item) ==
  /\ att_in # NoAttachment
  /\ i \in 1..Len(att_bytes)
  /\ att_bytes' = [att_bytes EXCEPT ![i] = item]
  /\ att_in' = NoAttachment
  /\ att_out' = NotDecoded
  /\ UNCHANGED << correlation, graph, locks, context >>

\* A peer's attachment: the serialized one cut after n items.
Peer_truncate(n) ==
  /\ att_in # NoAttachment
  /\ n < Len(att_bytes)
  /\ att_bytes' = SubSeq(att_bytes, 1, n)
  /\ att_in' = NoAttachment
  /\ att_out' = NotDecoded
  /\ UNCHANGED << correlation, graph, locks, context >>

\* A peer's attachment: the serialized one with one more item behind it.
Peer_append(item) ==
  /\ att_in # NoAttachment
  /\ att_bytes' = Append(att_bytes, item)
  /\ att_in' = NoAttachment
  /\ att_out' = NotDecoded
  /\ UNCHANGED << correlation, graph, locks, context >>

\* The receiver constructs AttachmentData from the bytes.
AttachmentData_decode ==
  /\ att_bytes # << >>
  /\ att_out' = AttachmentData(att_bytes)
  /\ UNCHANGED << att_in, att_bytes, correlation, graph, locks, context >>

CodecInit ==
  /\ impl = "ClientData"
  /\ StoreIdle
  /\ GraphIdle
  /\ LocksIdle
  /\ ContextIdle
  /\ CodecIdle

CodecNext ==
  \/ \E sequence_number, source_timestamp \in Int64Values, gid \in Gids :
       AttachmentData_serialize_to_zbytes(sequence_number, source_timestamp, gid)
  \/ \E i \in 1..6, item \in PeerItems : Peer_replace(i, item)
  \/ \E n \in 0..5 : Peer_truncate(n)
  \/ \E item \in PeerItems : Peer_append(item)
  \/ AttachmentData_decode

CodecSpec == CodecInit /\ [][CodecNext]_vars

(***************************************************************************)
(*                       Properties of the store                           *)
(***************************************************************************)
\* The last n elements of s (all of s when it is shorter).
LastN(s, n) ==
  IF Len(s) <= n THEN s ELSE SubSeq(s, Len(s) - n + 1, Len(s))

\* s is obtained from t by deleting elements (order kept).
RECURSIVE IsSubseq(_, _)
IsSubseq(s, t) ==
  IF s = << >> THEN TRUE
  ELSE IF t = << >> THEN FALSE
  ELSE IF Head(s) = Head(t) THEN IsSubseq(Tail(s), Tail(t))
  ELSE IsSubseq(s, Tail(t))

\* How often x occurs in s.
Count(s, x) == Cardinality({i \in 1..Len(s) : s[i] = x})

\* Shutdown of the store has been requested by the application.
ShutdownRequested == is_shutdown_ \/ destroy_called

\* The source timestamp and the sequence number reply r carries.
SourceTimestamp(r) == AttachmentData(Attachment(r)).source_timestamp
RequestSequence(r) == qseq[rep[r].q]
Decodes(r) == AttachmentData(Attachment(r)).ok

\* C1: the store is destroyed or removed from its owning collection only if
\* shutdown has been requested and the in-flight counter is 0, and never
\* while a query issued before the shutdown still awaits its drop callback.
C1_TeardownGate ==
  ~alive => /\ ShutdownRequested
            /\ num_in_flight_ = 0
            /\ Outstanding = {}

\* C2: the store is never freed while a reply handler that references it is
\* still executing.
C2_NoFreeWhileCallbackExecutes ==
  ~alive => AnyExecuting = {}

\* C3: in every state the in-flight counter equals the number of requests
\* issued to the transport whose drop callback has not yet run.
C3_InFlightCountsIssuedQueries ==
  alive => num_in_flight_ = Cardinality(Outstanding)

\* C4: the sequence numbers one store issues start at 1, are strictly
\* increasing and never repeat.
C4_SequenceNumbers ==
  /\ issued # << >> => issued[1] = 1
  /\ \A i, j \in 1..Len(issued) : i < j => issued[i] < issued[j]

\* C4 witness: two requests were issued by a ClientData and by now the second
\* number is out.
C4_Witness ==
  impl = "ClientData" /\ Len(issued) = 2 /\ sequence_number_ = 3

\* C5: with depth N and history not keep-all, when replies are added with no
\* take in between and then taken, what the takes remove followed by what is
\* still queued is exactly the last N replies added, in order: the oldest
\* replies are the evicted ones.
C5_DropOldest ==
  (history # "KEEP_ALL" /\ ~interleaved)
    => popped \o reply_queue_ = LastN(added, depth)

\* C6: whenever history is not keep-all, the reply queue holds at most depth
\* replies, for every depth including 0.
C6_QueueBounded ==
  history # "KEEP_ALL" => Len(reply_queue_) <= depth

\* C7: takes return the replies in the order in which the reply callback
\* enqueued them: what was taken followed by what is queued is the enqueue
\* history with the evicted (or lost) replies deleted, order unchanged.
C7_TakeInEnqueueOrder ==
  IsSubseq(popped \o reply_queue_, added)

\* C7 witness: two replies were taken in enqueue order although the first one
\* answers the later request and carries the later source timestamp.
C7_Witness ==
  /\ impl = "ClientData"
  /\ Len(popped) = 2 /\ popped = added /\ delivered = popped
  /\ RequestSequence(popped[1]) > RequestSequence(popped[2])
  /\ SourceTimestamp(popped[1]) > SourceTimestamp(popped[2])

\* C8: on a keep-all store that is not shut down, once the concurrent reply
\* callbacks have returned (and nothing was taken), the queue holds every
\* successful reply exactly once.
C8_EveryReplyOnce ==
  (history = "KEEP_ALL" /\ alive /\ ~ShutdownRequested /\ ~crashed
     /\ popped = << >> /\ AnyExecuting = {})
    => \A r \in Replies :
         Count(reply_queue_, r) =
           IF rep[r].pc = "done" /\ rep[r].shape # "err" THEN 1 ELSE 0

\* C9: once the shutdown flag is set, no reply callback adds an entry to the
\* reply queue or triggers the wait set.
C9_NothingBufferedAfterShutdown ==
  [][is_shutdown_ => (added' = added /\ triggered' = triggered)]_vars

C11_DestroyedAtLastDecrement ==
  [][(alive /\ ~alive') => (ShutdownRequested' /\ Outstanding' = {})]_vars

\* C12: shutdown() is idempotent: when a call to it returns the shutdown flag
\* is set, and a call on a store that is already shut down changes nothing.
C12_ShutdownIdempotent ==
  [][(\E undeclared \in BOOLEAN : ClientData_shutdown(undeclared))
       => (is_shutdown_' /\ (is_shutdown_ => UNCHANGED vars))]_vars

\* C13: when the transport's issue call made by send_request fails,
\* send_request returns an error, and the in-flight counter and the reply
\* queue are as they were before the call.
C13_FailedIssueReportedAndRolledBack ==
  [][\A q \in Queries :
       (query[q] = "idle" /\ query'[q] = "failed")
         => /\ ClientData_send_request_ret(is_shutdown_, TRUE, FALSE) # "RMW_RET_OK"
            /\ num_in_flight_' = num_in_flight_
            /\ reply_queue_' = reply_queue_]_vars

(***************************************************************************)
(*                    Properties of the session context                    *)
(***************************************************************************)
\* The places of the history where token t was taken in or removed.
Applied(t) == {i \in 1..Len(log) : log[i].token = t /\ log[i].ok}

\* What the last applied event of token t was: "PUT", "DELETE" or "none".
LastKind(t) ==
  IF Applied(t) = {} THEN "none"
  ELSE log[CHOOSE i \in Applied(t) : \A j \in Applied(t) : j <= i].kind

\* The samples whose put or delete is half done (entity set changed, indexes
\* not yet).
HalfApplied == {i \in 1..Len(samples) : samples[i].pc = "index"}

\* The threads inside a critical section of Data::mutex_.
InCriticalSection ==
  Cardinality({i \in 1..Len(samples) : samples[i].pc \in {"locked", "index"}})
    + (IF app_pc = "idle" THEN 0 ELSE 1)

\* No event is on its way and the subscriber is declared.
Quiescent ==
  /\ Data_pc = "constructed" /\ is_initialized_ /\ graph_subscriber_
  /\ ~Data_is_shutdown_ /\ samples = << >>

\* C14: the graph guard condition is triggered once for each liveliness
\* event that was applied to the graph cache and not for any other event:
\* the number of triggers is the number of applied events whose callback has
\* reached its end.
C14_TriggeredOncePerAppliedEvent ==
  graph_guard_condition_ =
    Cardinality({i \in 1..Len(log) : log[i].src = "sub" /\ log[i].ok})
      - Cardinality({i \in HalfApplied : Decodable(samples[i].token)})

\* C15: the graph cache is complete once events quiesce: every decodable
\* token of a remote session that is declared is in the cache, whenever it
\* appeared relative to the enumeration and the subscription.
C15_CacheComplete ==
  Quiescent =>
    \A t \in declared :
      (Decodable(t) /\ ~OwnSession(t)) => Entity(t) \in graph_cache_.entities

\* C16: the bootstrap enumeration applies every token with parse_put except
\* those of the own session: until the subscriber is declared the cache holds
\* no entity of the own session, and such an entity enters the cache only in
\* the step of the subscriber callback that handles its PUT sample.
C16_OwnSessionIgnoredAtBootstrap ==
  /\ [](~is_initialized_ =>
          /\ \A e \in graph_cache_.entities : e.zid # OWN_ZID
          /\ \A i \in 1..Len(log) :
               log[i].ok <=> /\ log[i].kind = "PUT"
                             /\ Decodable(log[i].token)
                             /\ ~OwnSession(log[i].token))
  /\ [][\A t \in Tokens :
          (OwnSession(t) /\ Entity(t) \in graph_cache_'.entities
             /\ Entity(t) \notin graph_cache_.entities)
            => \E i \in 1..Len(samples) :
                 /\ samples[i] = [kind |-> "PUT", token |-> t, pc |-> "locked"]
                 /\ samples'[i].pc = "index"]_vars

\* C16 witness: the enumeration returned a token of the own session and a
\* remote publisher; after the constructor the publisher is cached and the
\* own entity is not.
C16_Witness ==
  /\ Data_pc = "constructed" /\ ~is_initialized_
  /\ \E i, j \in 1..Len(log) :
       /\ log[i] = Logged("get", "PUT", "own_sub", FALSE)
       /\ log[j] = Logged("get", "PUT", "pub", TRUE)
  /\ Entity("pub") \in graph_cache_.entities
  /\ Entity("own_sub") \notin graph_cache_.entities

C18_DiscoveryScenario ==
  HalfApplied = {} =>
    LET topics == GraphCache_get_topic_names_and_types(graph_cache_)
        count == GraphCache_count_publishers(graph_cache_, "/t") IN
      /\ LastKind("pub") = "PUT"
           => (topics = {[name |-> "/t", types |-> {"Pkg/Msg"}]} /\ count = 1)
      /\ LastKind("pub") # "PUT"
           => /\ count = 0
              /\ LastKind("own_sub") # "PUT" => topics = {}

\* C18 witness: the node and its publisher appeared, then the publisher
\* disappeared; the topic list is empty and the count is 0 again.
C18_Witness ==
  /\ samples = << >>
  /\ LastKind("node") = "PUT"
  /\ \E i, j \in Applied("pub") :
       i < j /\ log[i].kind = "PUT" /\ log[j] = Logged("sub", "DELETE", "pub", TRUE)
  /\ LastKind("pub") = "DELETE"
  /\ GraphCache_get_topic_names_and_types(graph_cache_) = {}
  /\ GraphCache_count_publishers(graph_cache_, "/t") = 0
  /\ << "/ns", "n1" >> \in GraphCache_get_node_names(graph_cache_)

\* C19: at most one of the subscriber callbacks and the accessors is inside
\* the critical section of the context mutex, the mutex is held exactly
\* then, and no accessor has read a half-applied put or delete.
C19_OneCriticalSection ==
  /\ InCriticalSection <= 1
  /\ (Data_mutex_ = "") <=> (InCriticalSection = 0)
  /\ ~partial_seen
  /\ app_pc # "idle" => HalfApplied = {}

\* C19 witness: an accessor is inside its critical section on a non-empty
\* cache while a sample waits for the mutex.
C19_Witness ==
  /\ app_pc = "get_topic_names_and_types"
  /\ Data_mutex_ = "app"
  /\ graph_cache_.entities # {}
  /\ \E i \in 1..Len(samples) : samples[i].pc = "queued" /\ FirstOfToken(i)

\* C20: a token that does not decode leaves the graph cache unchanged, in
\* the enumeration loop and in the subscriber callback, and the events
\* handled after it are applied: a decodable PUT sample handled before
\* shutdown leaves its entity cached, a decodable DELETE leaves it absent,
\* and a valid reply of the enumeration with a decodable remote token leaves
\* its entity cached.
C20_MalformedTokenSkipped ==
  /\ [][(Len(log') > Len(log)
           /\ \/ log'[Len(log')].kind = "INVALID"
              \/ ~Decodable(log'[Len(log')].token))
          => graph_cache_' = graph_cache_]_vars
  /\ [][\A i \in 1..Len(samples) :
          (samples[i].pc = "locked" /\ ~Data_is_shutdown_
             /\ Decodable(samples[i].token)
             /\ \/ Len(samples') < Len(samples)
                \/ Len(samples') = Len(samples) /\ samples'[i].pc = "index")
            => LET e == Entity(samples[i].token) IN
                 /\ samples[i].kind = "PUT" => e \in graph_cache_'.entities
                 /\ samples[i].kind = "DELETE" => e \notin graph_cache_'.entities]_vars
  /\ [][\A t \in Tokens :
          (Data_pc = "recv" /\ t \in channel /\ t \notin channel'
             /\ Len(log') > Len(log) /\ log'[Len(log')].kind = "PUT"
             /\ Decodable(t) /\ ~OwnSession(t))
            => Entity(t) \in graph_cache_'.entities]_vars

\* C20 witness: the enumeration met the malformed token before a valid one,
\* the subscriber callback handled a sample of the malformed token before a
\* valid sample, and both valid ones were applied.
C20_Witness ==
  /\ \E i, j \in 1..Len(log) :
       /\ i < j
       /\ log[i] = Logged("get", "PUT", "bad", FALSE)
       /\ log[j].src = "get" /\ log[j].ok
  /\ \E k, l \in 1..Len(log) :
       /\ k < l
       /\ log[k].src = "sub" /\ log[k].token = "bad"
       /\ log[l] = Logged("sub", "PUT", "pub", TRUE)
  /\ Entity("pub") \in graph_cache_.entities
  /\ samples = << >>


(***************************************************************************)
(*                    The mutexes of the client store                      *)
(* Which mutex each method of the store locks for its body, and the        *)
(* threads entering and leaving the methods.  The reply callbacks run      *)
(* client_data_handler, the drop callbacks client_data_drop, and the       *)
(* application thread the remaining methods.                               *)
(***************************************************************************)
Handlers == {"handler1", "handler2"}
Drops == {"drop1", "drop2"}

\* The methods of ClientData each kind of thread calls.
ClientData_methods(t) ==
  IF t \in Handlers THEN {"is_shutdown", "add_new_reply"}
  ELSE IF t \in Drops THEN {"decrement_in_flight_and_conditionally_remove"}
  ELSE {"take_response", "send_request",
        "queue_has_data_and_attach_condition_if_not",
        "detach_condition_and_queue_is_empty",
        "shutdown", "shutdown_and_query_in_flight"}

\* The methods of rmw_client_data_t each kind of thread calls.
rmw_client_data_t_methods(t) ==
  IF t \in Handlers THEN {"is_shutdown", "add_new_reply"}
  ELSE IF t \in Drops THEN {"decrement_queries_in_flight_and_is_shutdown"}
  ELSE {"pop_next_reply", "get_next_sequence_number",
        "increment_in_flight_callbacks",
        "queue_has_data_and_attach_condition_if_not",
        "detach_condition_and_queue_is_empty",
        "shutdown_and_query_in_flight"}

\* Variant of rmw_client_data_t whose attach and detach lock the queue
\* mutex inside condition_mutex_ to read the queue.
attach_locks_queue_inside_condition(t) ==
  /\ impl = "rmw_client_data_t"
  /\ at[t].pc = "inside"
  /\ at[t].method \in {"queue_has_data_and_attach_condition_if_not",
                       "detach_condition_and_queue_is_empty"}
  /\ at' = [at EXCEPT ![t] = [method |-> "pop_next_reply", pc |-> "waiting"]]
  /\ UNCHANGED << holder, correlation, graph, codec, context >>

\* ClientData: std::lock_guard<std::recursive_mutex> lock(mutex_) opens
\* every method; add_new_reply locks the wait set's condition_mutex inside
\* it (line 291).
ClientData_lock_guard(method) ==
  IF method = "wait_set_lock" THEN "wait_set_data_->condition_mutex"
                              ELSE "mutex_"

\* rmw_client_data_t: the mutex the lock_guard of each method names.
rmw_client_data_t_lock_guard(method) ==
  CASE method \in {"add_new_reply", "pop_next_reply"} -> "reply_queue_mutex_"
    [] method \in {"notify", "queue_has_data_and_attach_condition_if_not",
                   "detach_condition_and_queue_is_empty"} -> "condition_mutex_"
    [] method \in {"increment_in_flight_callbacks",
                   "shutdown_and_query_in_flight",
                   "decrement_queries_in_flight_and_is_shutdown",
                   "is_shutdown"} -> "in_flight_mutex_"
    [] method = "get_next_sequence_number" -> "sequence_number_mutex_"
    [] method = "wait_set_lock" -> "wait_set_data_->condition_mutex"

MethodsOf(t) ==
  IF impl = "ClientData" THEN ClientData_methods(t)
                         ELSE rmw_client_data_t_methods(t)

LockGuard(method) ==
  IF impl = "ClientData" THEN ClientData_lock_guard(method)
                         ELSE rmw_client_data_t_lock_guard(method)

\* A thread calls a method and reaches the lock_guard at its head.
Method_call(t, method) ==
  /\ at[t] = NotCalling
  /\ method \in MethodsOf(t)
  /\ at' = [at EXCEPT ![t] = [method |-> method, pc |-> "waiting"]]
  /\ UNCHANGED << holder, correlation, graph, codec, context >>

\* The lock_guard takes the mutex once it is free, and the body runs.
Method_lock(t) ==
  /\ at[t].pc = "waiting"
  /\ holder[LockGuard(at[t].method)] = ""
  /\ holder' = [holder EXCEPT ![LockGuard(at[t].method)] = t]
  /\ at' = [at EXCEPT ![t].pc = "inside"]
  /\ UNCHANGED << correlation, graph, codec, context >>

\* rmw_client_data_t::add_new_reply, line 63: notify() is called with
\* reply_queue_mutex_ held and reaches the lock_guard of condition_mutex_.
rmw_client_data_t_add_new_reply_notify(t) ==
  /\ impl = "rmw_client_data_t"
  /\ at[t] = [method |-> "add_new_reply", pc |-> "inside"]
  /\ at' = [at EXCEPT ![t] = [method |-> "notify", pc |-> "waiting"]]
  /\ UNCHANGED << holder, correlation, graph, codec, context >>

\* rmw_client_data_t::notify, lines 33-34: with a wait set attached, its
\* condition_mutex is locked inside condition_mutex_.
rmw_client_data_t_notify_wait_set(t) ==
  /\ impl = "rmw_client_data_t"
  /\ at[t] = [method |-> "notify", pc |-> "inside"]
  /\ at' = [at EXCEPT ![t] = [method |-> "wait_set_lock", pc |-> "waiting"]]
  /\ UNCHANGED << holder, correlation, graph, codec, context >>

\* ClientData::add_new_reply, lines 290-291: with a wait set attached, its
\* condition_mutex is locked inside mutex_.
ClientData_add_new_reply_wait_set(t) ==
  /\ impl = "ClientData"
  /\ at[t] = [method |-> "add_new_reply", pc |-> "inside"]
  /\ at' = [at EXCEPT ![t] = [method |-> "wait_set_lock", pc |-> "waiting"]]
  /\ UNCHANGED << holder, correlation, graph, codec, context >>

\* The method returns: its lock_guards are destructed.  The legacy
\* add_new_reply returns only after its notify().
Method_return(t) ==
  /\ at[t].pc = "inside"
  /\ impl = "rmw_client_data_t" => at[t].method # "add_new_reply"
  /\ holder' = [m \in Mutexes |-> IF holder[m] = t THEN "" ELSE holder[m]]
  /\ at' = [at EXCEPT ![t] = NotCalling]
  /\ UNCHANGED << correlation, graph, codec, context >>

LockInit ==
  /\ impl \in Impls
  /\ StoreIdle
  /\ GraphIdle
  /\ CodecIdle
  /\ LocksIdle
  /\ ContextIdle

LockNext ==
  \/ \E t \in Threads : \E method \in MethodsOf(t) : Method_call(t, method)
  \/ \E t \in Threads : Method_lock(t)
  \/ \E t \in Threads : rmw_client_data_t_add_new_reply_notify(t)
  \/ \E t \in Threads : rmw_client_data_t_notify_wait_set(t)
  \/ \E t \in Threads : ClientData_add_new_reply_wait_set(t)
  \/ \E t \in Threads : Method_return(t)

LockSpec == LockInit /\ [][LockNext]_vars

(***************************************************************************)
(*                  Properties of the attachment codec                     *)
(***************************************************************************)

(***************************************************************************)
(*               rmw_context_impl_s::get_next_entity_id                    *)
(* Threads that create nodes, publishers, subscriptions, services and      *)
(* clients call get_next_entity_id concurrently; the id of a node is kept  *)
(* in NodeData::id_.                                                       *)
(***************************************************************************)

(***************************************************************************)
(*                   rmw_context_impl_s::Data::~Data                       *)
(* The destructor destructs and deallocates the graph guard condition      *)
(* without taking mutex_ and calls shutdown() afterwards.  The liveliness  *)
(* subscriber was given the raw pointer to the Data object (subscribe,     *)
(* line 148), so its handler runs whatever the destructor is doing.        *)
(***************************************************************************)
\* ~Data, lines 193-201: the guard condition is destructed and deallocated
\* and the pointer to it reset.
Data_destructor_free ==
  /\ Data_pc = "constructed"
  /\ Data_destructor = "none"
  /\ app_pc = "idle"
  /\ Data_destructor' = "freed"
  /\ UNCHANGED << next_entity_id_, id_at, entity_ids,
                  correlation, graph, codec, locks >>

\* ~Data, lines 203-204: shutdown(), whose result is dropped (closed:
\* z_close succeeded).
Data_destructor_shutdown(closed) ==
  /\ Data_destructor = "freed"
  /\ Data_mutex_lock(Data_mutex_)
  /\ Data_destructor' = "done"
  /\ IF Data_is_shutdown_
       THEN UNCHANGED << graph_subscriber_, Data_is_shutdown_ >>
       ELSE /\ graph_subscriber_' = FALSE
            /\ Data_is_shutdown_' = closed
  /\ UNCHANGED << next_entity_id_, id_at, entity_ids,
                  declared, Data_pc, channel, is_initialized_, graph_cache_,
                  samples, Data_mutex_, app_pc, graph_guard_condition_, log,
                  partial_seen, n_events, correlation, codec, locks >>

\* The session context from its construction to its destruction.  The
\* accessors (lines 233-258) only read under mutex_ and no call of the
\* owner is in progress when the last reference is released, so they are
\* left out.
DestructionNext ==
  \/ \E t \in Tokens : DeclareToken(t)
  \/ \E t \in Tokens : UndeclareToken(t)
  \/ Data_Data_liveliness_get
  \/ \E t \in Tokens, reply_ok \in BOOLEAN : Data_Data_recv(t, reply_ok)
  \/ Data_Data_return
  \/ \E subscriber_ok \in BOOLEAN : Data_subscribe(subscriber_ok)
  \/ \E i \in 1..MaxEvents : graph_sub_data_handler_lock(i)
  \/ \E i \in 1..MaxEvents : graph_sub_data_handler_parse(i)
  \/ \E i \in 1..MaxEvents : graph_sub_data_handler_trigger(i)
  \/ \E closed \in BOOLEAN : Data_shutdown(closed)
  \/ Data_destructor_free
  \/ \E closed \in BOOLEAN : Data_destructor_shutdown(closed)

DestructionSpec == GraphInit /\ [][DestructionNext]_vars

\* Variant of get_next_entity_id that returns next_entity_id_ without the
\* post-increment of line 264.
get_next_entity_id_without_increment(n) == n

\* get_next_entity_id, line 264: next_entity_id_ after
\* "return data_->next_entity_id_++"
rmw_context_impl_s_get_next_entity_id(n) == n + 1

\* A thread calls get_next_entity_id and reaches the lock_guard of line 263.
get_next_entity_id_call(t) ==
  /\ id_at[t].pc = "idle"
  /\ next_entity_id_ < MaxIds
  /\ id_at' = [id_at EXCEPT ![t].pc = "waiting"]
  /\ UNCHANGED << next_entity_id_, entity_ids, Data_destructor,
                  correlation, graph, codec, locks >>

\* get_next_entity_id, lines 263-264: the lock_guard takes mutex_ and the
\* thread reads next_entity_id_.
get_next_entity_id_lock(t) ==
  /\ id_at[t].pc = "waiting"
  /\ Data_mutex_lock(Data_mutex_)
  /\ Data_mutex_' = t
  /\ id_at' = [id_at EXCEPT ![t] = [pc |-> "locked", id |-> next_entity_id_]]
  /\ UNCHANGED << next_entity_id_, entity_ids, Data_destructor,
                  declared, Data_pc, channel, is_initialized_,
                  graph_subscriber_, Data_is_shutdown_, graph_cache_, samples,
                  app_pc, graph_guard_condition_, log, partial_seen, n_events,
                  correlation, codec, locks >>

\* get_next_entity_id, line 264-265: the thread writes the incremented
\* counter, returns the value it read and releases mutex_.
get_next_entity_id_return(t) ==
  /\ id_at[t].pc = "locked"
  /\ next_entity_id_' = rmw_context_impl_s_get_next_entity_id(id_at[t].id)
  /\ entity_ids' = Append(entity_ids, [by |-> t, id |-> id_at[t].id])
  /\ Data_mutex_' = ""
  /\ id_at' = [id_at EXCEPT ![t] = [pc |-> "idle", id |-> 0]]
  /\ UNCHANGED << Data_destructor,
                  declared, Data_pc, channel, is_initialized_,
                  graph_subscriber_, Data_is_shutdown_, graph_cache_, samples,
                  app_pc, graph_guard_condition_, log, partial_seen, n_events,
                  correlation, codec, locks >>

\* The context after its construction, no entity created yet.
IdInit ==
  /\ impl = "ClientData"
  /\ StoreIdle
  /\ GraphIdle
  /\ CodecIdle
  /\ LocksIdle
  /\ ContextIdle

IdNext ==
  \/ \E t \in IdCallers : get_next_entity_id_call(t)
  \/ \E t \in IdCallers : get_next_entity_id_lock(t)
  \/ \E t \in IdCallers : get_next_entity_id_return(t)

IdSpec == IdInit /\ [][IdNext]_vars

\* The tag expected at an odd position of the attachment.
ExpectedTag(i) ==
  CASE i = 1 -> "sequence_number"
    [] i = 3 -> "source_timestamp"
    [] i = 5 -> "source_gid"

\* Item i of the bytes is what the format puts there.
WellFormedAt(bytes, i) ==
  /\ i <= Len(bytes)
  /\ CASE i \in {1, 3, 5} ->
            bytes[i].type = "str" /\ bytes[i].val = ExpectedTag(i)
       [] i \in {2, 4} -> bytes[i].type = "int64"
       [] i = 6 -> bytes[i].type = "slice" /\ bytes[i].val.len = GID_LEN

\* The first position at which the bytes deviate from the format.
FirstDeviation(bytes) ==
  CHOOSE i \in 1..6 :
    ~WellFormedAt(bytes, i) /\ \A j \in 1..(i - 1) : WellFormedAt(bytes, j)

\* The error of each kind of deviation.
DeviationError(bytes, i) ==
  CASE i = 1 -> "sequence_number is not found in the attachment."
    [] i = 2 -> "Failed to deserialize the sequence_number."
    [] i = 3 -> "source_timestamp is not found in the attachment"
    [] i = 4 -> "Failed to deserialize the source_timestamp."
    [] i = 5 -> "Invalid attachment: the key source_gid is not found"
    [] i = 6 -> IF i <= Len(bytes) /\ bytes[i].type = "slice"
                  THEN "The length of source_gid mismatched."
                  ELSE "Failed to deserialize the source_gid."

\* The errors the decoder has produced are those of the seven deviations.
DeviationErrors ==
  { "sequence_number is not found in the attachment.",
    "Failed to deserialize the sequence_number.",
    "source_timestamp is not found in the attachment",
    "Failed to deserialize the source_timestamp.",
    "Invalid attachment: the key source_gid is not found",
    "Failed to deserialize the source_gid.",
    "The length of source_gid mismatched." }

\* C21: the attachment round-trips: decoding the bytes serialize_to_zbytes
\* produced for a triple yields the same sequence number, the same source
\* timestamp and the same gid, for every triple and for the one at hand.
C21_AttachmentRoundTrip ==
  /\ \A sequence_number, source_timestamp \in Int64Values, gid \in Gids :
       AttachmentData(serialize_to_zbytes(sequence_number, source_timestamp, gid))
         = [ok |-> TRUE, sequence_number |-> sequence_number,
            source_timestamp |-> source_timestamp, source_gid |-> gid]
  /\ att_in # NoAttachment =>
       /\ att_bytes = serialize_to_zbytes(att_in.sequence_number,
                                          att_in.source_timestamp,
                                          att_in.source_gid)
       /\ att_out # NotDecoded =>
            att_out = [ok |-> TRUE,
                       sequence_number |-> att_in.sequence_number,
                       source_timestamp |-> att_in.source_timestamp,
                       source_gid |-> att_in.source_gid]

\* C21 witness: a triple with a negative sequence number was serialized and
\* decoded again.
C21_Witness ==
  /\ att_in = [sequence_number |-> -1, source_timestamp |-> 2,
               source_gid |-> "gid_b"]
  /\ att_out # NotDecoded
  /\ att_out.ok
  /\ att_out.sequence_number = -1
  /\ att_out.source_timestamp = 2
  /\ att_out.source_gid = "gid_b"

NoAddInProgress == reply_queue_mutex_ = 0

NegativeFields(r) ==
  LET attachment == attachement_data_t(Attachment(r)) IN
    attachment.sequence_number < 0 \/ attachment.source_timestamp < 0

\* A call of ClientData::take_response that finds a reply to remove.
TakesFront ==
  /\ IsClientData /\ AppCanCall
  /\ ~is_shutdown_ /\ reply_queue_ # << >>
  /\ popped' # popped

C26_KeepAllNeverEvicts ==
  history = "KEEP_ALL" =>
    /\ popped \o reply_queue_ = added
    /\ Len(reply_queue_) = Len(added) - Len(popped)
    /\ ~crashed

\* C26 witness: a keep-all store holds more replies than its depth, one
\* reply having been taken before.
C26_Witness ==
  /\ history = "KEEP_ALL"
  /\ Len(reply_queue_) > depth
  /\ Len(popped) = 1
  /\ Len(added) = Len(reply_queue_) + 1

C28_InFlightNeverNegative == num_in_flight_ >= 0

(***************************************************************************)
(*                  Properties of the store's mutexes                      *)
(***************************************************************************)
\* The methods that read or write the in-flight counter or the shutdown
\* flag from a callback.
InFlightMethods ==
  {"is_shutdown", "decrement_in_flight_and_conditionally_remove",
   "decrement_queries_in_flight_and_is_shutdown"}

\* The methods that work on the reply queue.
QueueMethods == {"add_new_reply", "notify", "take_response", "pop_next_reply"}

\* The mutex that guards the reply queue.
ReplyQueueLock == LockGuard("add_new_reply")

\* C25: the in-flight counter and the shutdown flag have a mutex of their
\* own: a thread that waits to decrement the counter or to read the flag
\* never waits for a thread that holds the lock of the reply queue inside
\* add_new_reply or a take.
C25_InFlightLockIndependent ==
  \A t, u \in Threads :
    /\ at[t].pc = "waiting" /\ at[t].method \in InFlightMethods
    /\ holder[ReplyQueueLock] = u /\ at[u].method \in QueueMethods
    => holder[LockGuard(at[t].method)] # u

(***************************************************************************)
(*              Properties of the session context's shutdown               *)
(***************************************************************************)
\* The samples whose handler is inside its critical section.
InHandler == {i \in 1..Len(samples) : samples[i].pc \in {"locked", "index"}}

\* C29: once shutdown() has succeeded, no liveliness event changes the
\* graph cache, none raises the graph guard condition and none reaches
\* parse_put or parse_del; a handler concurrent with shutdown() has either
\* finished before shutdown() runs or finds the context shut down and
\* returns: shutdown() never runs while a handler is between taking mutex_
\* and releasing it, and in a context that is shut down no handler is past
\* the test of is_shutdown_.
C29_NoEventAfterShutdown ==
  /\ [][Data_is_shutdown_ =>
          /\ graph_cache_' = graph_cache_
          /\ graph_guard_condition_' = graph_guard_condition_
          /\ log' = log]_vars
  /\ [][Data_is_shutdown_' # Data_is_shutdown_ \/ graph_subscriber_' # graph_subscriber_
          => InHandler = {}]_vars
  /\ [](Data_is_shutdown_ =>
          \A i \in 1..Len(samples) : samples[i].pc \in {"queued", "locked"})

\* C29 witness: the context is shut down and the handler of a liveliness
\* event delivered before holds mutex_, about to test is_shutdown_.
C29_Witness ==
  /\ Data_is_shutdown_
  /\ \E i \in 1..Len(samples) : samples[i].pc = "locked"
  /\ graph_cache_.entities # {}

\* C30: shutdown() undeclares the liveliness subscriber and closes the
\* session at most once over any sequence of calls: after a successful
\* shutdown nothing changes any more; a call whose close fails leaves
\* is_shutdown_ false; and every call that goes past the test of
\* is_shutdown_ and closes the session finds the subscriber still declared,
\* so that no retry undeclares it a second time.
C30_ShutdownAtMostOnce ==
  /\ [][Data_is_shutdown_ =>
          Data_is_shutdown_' /\ graph_subscriber_' = graph_subscriber_]_vars
  /\ [][graph_subscriber_ /\ ~graph_subscriber_' /\ ~Data_is_shutdown_'
          => ~Data_is_shutdown_]_vars
  /\ [][~Data_is_shutdown_ /\ Data_is_shutdown_' => graph_subscriber_]_vars

(***************************************************************************)
(*              Properties of a store that is shut down                    *)
(***************************************************************************)
\* C34: send_request on a store that is shut down issues no query, hands
\* out no sequence number, writes no sequence id for the caller, leaves the
\* in-flight counter and the reply queue as they are and returns
\* RMW_RET_OK: while the store is shut down no query leaves "idle", the
\* sequence counter and the numbers handed out stay, and the in-flight
\* counter does not grow.
C34_SendRequestAfterShutdown ==
  /\ [][impl = "ClientData" /\ alive /\ is_shutdown_ =>
          /\ sequence_number_' = sequence_number_
          /\ issued' = issued
          /\ qseq' = qseq
          /\ \A q \in Queries : query[q] = "idle" => query'[q] = "idle"
          /\ num_in_flight_' <= num_in_flight_]_vars
  /\ [](\A prepared, z_get_ok \in BOOLEAN :
          ClientData_send_request_ret(TRUE, prepared, z_get_ok) = "RMW_RET_OK")

\* C34 witness: a store that handed out a sequence number is shut down, the
\* application can still call send_request and a query is left to issue.
C34_Witness ==
  /\ impl = "ClientData"
  /\ AppCanCall
  /\ is_shutdown_
  /\ Len(issued) = 1
  /\ \E q \in Queries : query[q] = "idle"

LockRank(m) ==
  CASE m = "condition_mutex_" -> 2
    [] m = "wait_set_data_->condition_mutex" -> 3
    [] OTHER -> 1

\* The mutex a waiting thread waits for.
Wanted(t) == LockGuard(at[t].method)

\* The threads of S wait for mutexes held by threads of S.
Deadlocked(S) ==
  \A t \in S : at[t].pc = "waiting" /\ holder[Wanted(t)] \in S

C33_EntityIdsUnique ==
  /\ \A k \in 1..Len(entity_ids) : entity_ids[k].id = k - 1
  /\ \A k, l \in 1..Len(entity_ids) :
       entity_ids[k].id = entity_ids[l].id => k = l
  /\ next_entity_id_ = Len(entity_ids)

\* C33 witness: three threads called concurrently, two still wait for
\* mutex_ while the third holds it, and ids went to different threads
\* before.
C33_Witness ==
  /\ Len(entity_ids) >= 2
  /\ entity_ids[1].by # entity_ids[2].by
  /\ \E t \in IdCallers :
       /\ id_at[t].pc = "locked"
       /\ \A u \in IdCallers \ {t} : id_at[u].pc = "waiting"

(***************************************************************************)
(*       Properties of the context from bootstrap to destruction           *)
(***************************************************************************)

\* C32: the graph cache holds no stale entity once events quiesce: every
\* cached entity is one whose token is still declared, also when the token
\* was returned by the bootstrap enumeration and disappeared before the
\* liveliness subscription was declared.
C32_NoStaleEntity ==
  Quiescent =>
    \A t \in Tokens :
      Entity(t) \in graph_cache_.entities => t \in declared

\* C31: the graph guard condition is never triggered after it was
\* destroyed: once ~Data has destructed and deallocated it, no liveliness
\* event handler reaches rmw_trigger_guard_condition; the subscriber is
\* undeclared or the shutdown flag set before the guard condition is freed.
C31_NoTriggerAfterFree ==
  [][graph_guard_condition_' # graph_guard_condition_
       => Data_destructor = "none"]_vars
====
